---- MODULE Spec2Model ----
(***************************************************************************)
(* State-machine model of the Spanish prosody TTS pipeline:                *)
(*   - complex_generator.py: EstructuraComplejaMejorada                    *)
(*       generate_single_phrase_with_validation (retry loop, fallback,     *)
(*       recovery from the engine's fatal interpolation error, checkpoint) *)
(*   - tts_generator.py: ProsodyEnhancedGenerator                          *)
(*       generate_single_phrase_with_prosody, _engine_generate_in_parts,   *)
(*       _generate_with_safe_params                                        *)
(*   - main_app.py: ProsodyGeneratorGUI                                    *)
(*       start_generation, stop_generation, load_and_resume_session,       *)
(*       run_generation, process_full_mode (Phase 1, Phase 2, assembly)    *)
(*   - core/prosody_processor.py: SelectiveRegenerator.fix_critical_problems*)
(*                                                                         *)
(* Texts are abstracted to the features the control flow reads (word and   *)
(* character counts, position of the comma, question mark, opening mark).  *)
(* Waveforms are abstracted to what the code computes on them: emptiness,  *)
(* the verdict of validate_audio_anti_truncation, the quality score and    *)
(* whether the peak has been normalised.  Real-valued parameters are kept  *)
(* as integers scaled by 100.                                              *)
(***************************************************************************)
EXTENDS Integers, Sequences, FiniteSets, TLC

\* ------------------------------------------------------------------ bounds
\* The attempt counter is only ever compared with 10 and with
\* fallback_after_attempts; it is counted exactly up to AttemptCap, after
\* which it starts again just above the ceiling.
AttemptCap == 52
\* evaluate_audio_quality scores of invalid candidates range over 1..MaxScore.
MaxScore == 2
\* Number of critical problems the prosody analysis may report in Phase 2.
MaxProblems == 1
\* In the pipeline specification the engine fails (empty or invalid waveform,
\* generic exception) on at most the first MaxRetries attempts of a call.
MaxRetries == 1
\* Longest problem list handed to the regenerator on its own.
MaxListed == 3
MaxSegments == 2
MaxSentences == 2
MaxParagraphs == 3
ModelRate == 40

\* ------------------------------------------------------- program constants
fallback_after_attempts == 50
error_fallback_attempts == 10
short_phrase_words == 7
short_phrase_chars == 35
split_short_words == 6
engine_max_words == 12
risky_question_chars == 90
micro_chunk_words == 4
regen_max_attempts == 5
regen_max_failures == 3
base_speed_wpm == 145
severity_threshold == 30
phase2_max_fixes == 5
smart_crossfade_ms == 50
apply_crossfade_ms == 150
\* ProsodyProblemDetector.rules, in percent
paragraph_end_drop == -8
question_rise == 15
arc_slope_ideal == -5
descenso_final_fuerte == -12
\* split_into_sentences and its helpers
max_sentence_chars == 120
min_part_chars == 30
split_min_words == 6
short_sentence_words == 3
\* _segmentar_parrafos
min_paragraph_chars == 10
\* _merge_minimum_phrases
minimum_phrase_words == 4
max_merged_chars == 160

\* ArquitecturaVocalMaestra: f0_base in Hz, and arco_global in percent
f0_base == 185

desarrollo_peak == 15

cierre_drop == -8

velocidad_natural == 145

\* _calcular_pausa_transicion: the limits of a pause, in milliseconds
pausa_min == 200

pausa_max == 3000

Threads == {1, 2}
Dirs == {1, 2, 3, 4}
None == 0

\* --------------------------------------------------------------- parameters
\* __init__ of EstructuraComplejaMejorada: nfe_steps 64, sway -1.0, cfg 2.0,
\* speed 0.95 (scaled by 100 except nfe_steps).
DefaultParams ==
    [nfe_steps |-> 64, sway_sampling_coef |-> -100, cfg_strength |-> 200, speed |-> 95]

NoParams ==
    [nfe_steps |-> 0, sway_sampling_coef |-> 0, cfg_strength |-> 0, speed |-> 0]

\* Short-phrase micro-adjustment of generate_single_phrase_with_validation.
ShortPhraseParams(p) ==
    [p EXCEPT !.nfe_steps = 28, !.sway_sampling_coef = -30, !.speed = 95]

\* Preset 'safe2' of _generate_with_safe_params.
Safe2Params ==
    [nfe_steps |-> 24, sway_sampling_coef |-> -15, cfg_strength |-> 120, speed |-> 100]

\* Temporary prosodic adjustments of generate_single_phrase_with_prosody.
ApplyHints(p, h) ==
    [nfe_steps |-> p.nfe_steps + h.nfe_adjustment,
     sway_sampling_coef |-> p.sway_sampling_coef + h.sway_adjustment,
     cfg_strength |-> p.cfg_strength + h.cfg_adjustment,
     speed |-> IF h.speed # 0 THEN (h.speed * 95) \div base_speed_wpm ELSE p.speed]

\* -------------------------------------------------------------------- texts
TextOf(wd, ch, ca, q, o) ==
    [words |-> wd, chars |-> ch, commaAt |-> ca, question |-> q, opening |-> o]

NoText == TextOf(0, 0, 0, FALSE, FALSE)

\* "Tu telefono vibra."
ShortText == TextOf(3, 18, 0, FALSE, FALSE)
\* Nine words, 48 characters, one comma after the fifth word.
CommaText == TextOf(9, 48, 5, FALSE, FALSE)
\* A question of sixteen words between opening and closing marks, with a
\* comma after the eighth word.
QuestionText == TextOf(16, 101, 8, TRUE, TRUE)

HintsOf(a, n, s, c, v) ==
    [apply_modifications |-> a, nfe_adjustment |-> n, sway_adjustment |-> s,
     cfg_adjustment |-> c, speed |-> v]

\* A sentence of the document with the hints prepare_text_for_generation
\* returns for it.
Sentence(t, h) == [text |-> t, hints |-> h]

Documents ==
    { << Sentence(ShortText, HintsOf(TRUE, 1, -5, 10, 160)),
         Sentence(QuestionText, HintsOf(TRUE, 0, 0, 10, 130)),
         Sentence(CommaText, HintsOf(FALSE, 0, 0, 0, 0)) >> }

\* One-sentence documents, for the exhaustive exploration of the retry loop.
SingleDocuments ==
    { << Sentence(ShortText, HintsOf(TRUE, 1, -5, 10, 160)) >>,
      << Sentence(ShortText, HintsOf(FALSE, 0, 0, 0, 0)) >>,
      << Sentence(CommaText, HintsOf(TRUE, 0, -5, 0, 150)) >>,
      << Sentence(QuestionText, HintsOf(TRUE, 0, 0, 10, 130)) >> }

\* short_phrase of generate_single_phrase_with_validation.
ShortPhrase(t) == t.words < short_phrase_words \/ t.chars < short_phrase_chars

\* The text before and after a cut behind word k.
LeftOf(t, k) ==
    TextOf(k, (t.chars * k) \div t.words, 0, FALSE, t.opening)

RightOf(t, k) ==
    TextOf(t.words - k, t.chars - ((t.chars * k) \div t.words),
           IF t.commaAt > k THEN t.commaAt - k ELSE 0, t.question, FALSE)

\* _split_text_for_engine_short: at the comma, else in the middle when the
\* text has more than six words, else unsplit.
SplitTextForEngineShort(t) ==
    IF t.commaAt > 0 THEN << LeftOf(t, t.commaAt), RightOf(t, t.commaAt) >>
    ELSE IF t.words > split_short_words
         THEN << LeftOf(t, t.words \div 2), RightOf(t, t.words \div 2) >>
         ELSE << t >>

\* _prepare_text_for_engine: the opening mark is removed.
PrepareTextForEngine(t) ==
    IF t.opening THEN [t EXCEPT !.opening = FALSE, !.chars = t.chars - 1] ELSE t

\* _is_risky_text_for_engine.
IsRiskyTextForEngine(t) ==
    t.chars = 0 \/ (t.question /\ t.chars > risky_question_chars)

\* _split_text_for_engine with max_words = 12.
SplitTextForEngine(t) ==
    IF t.words <= engine_max_words THEN << t >>
    ELSE IF t.commaAt > 0 /\ t.words - t.commaAt >= 3
         THEN << LeftOf(t, t.commaAt), RightOf(t, t.commaAt) >>
         ELSE << LeftOf(t, t.words \div 2), RightOf(t, t.words \div 2) >>

\* The 4-word chunks of the micro-division in _engine_generate_in_parts.
NumChunks(t) == (t.words + micro_chunk_words - 1) \div micro_chunk_words

ChunkOf(t, j) ==
    LET a == micro_chunk_words * (j - 1)
        n == IF t.words - a < micro_chunk_words THEN t.words - a ELSE micro_chunk_words
    IN  TextOf(n, (t.chars * n) \div t.words,
               IF t.commaAt > a /\ t.commaAt <= a + n THEN t.commaAt - a ELSE 0,
               t.question /\ a + n = t.words, t.opening /\ j = 1)

\* ---------------------------------------------------------------- waveforms
WaveOf(k, s, n) == [kind |-> k, score |-> s, normalized |-> n]

NoWave == WaveOf("none", 0, FALSE)

\* wav / max(abs(wav)) * 0.9
Normalize(wv) == [wv EXCEPT !.normalized = TRUE]

\* What one call of f5tts.infer may produce: a waveform that passes
\* validate_audio_anti_truncation, one that fails it (with its
\* evaluate_audio_quality score), an empty waveform, a generic exception, or
\* the fatal "t must be strictly increasing or decreasing" exception.
EngineOutcomes ==
    { [kind |-> k, score |-> 0] : k \in {"valid", "empty", "error", "fatal"} }
    \cup { [kind |-> "invalid", score |-> s] : s \in 1..MaxScore }

\* ------------------------------------------------------------------- state
VARIABLES
    calc,             \* the arguments and results of a function applied on its own
    document,         \* the segmented sentences of the text file
    is_processing,    \* ProsodyGeneratorGUI.is_processing
    generate_button,  \* state of the "Generar Audio" button
    resume_state,     \* ProsodyGeneratorGUI.resume_state
    resume_file,      \* contents of resume_state.json
    files,            \* per output directory, the sentence files in frases/
    last_dir,         \* the most recently used output_* directory
    w                 \* per worker thread, the locals of run_generation

vars ==
    << calc, document, is_processing, generate_button, resume_state, resume_file,
       files, last_dir, w >>

ResumeOf(i, d) == [phrase_idx |-> i, session_dir |-> d]

NoResume == ResumeOf(0, None)

\* No function is being applied on its own.
NoCalc == [op |-> "none"]

IdleWorker ==
    [pc |-> "idle", dir |-> None, start_idx |-> 0, idx |-> 0,
     audio_segments |-> << >>, params |-> NoParams,
     hinted |-> FALSE, gspp_orig |-> NoParams, engine_text |-> NoText,
     stage |-> "none", text |-> NoText, gspv_orig |-> NoParams,
     attempt |-> 0, best_candidate |-> NoWave, scored |-> {},
     engine_fatal |-> FALSE, synthesized |-> {}, params_before |-> NoParams,
     tried_ext |-> FALSE, tried_split |-> FALSE,
     sp_parts |-> << >>, sp_i |-> 0, sp_n |-> 0,
     parts |-> << >>, part_i |-> 0, n_audio |-> 0,
     chunk_i |-> 0, safe_orig |-> NoParams,
     ret |-> NoWave,
     problems |-> 0, fix_attempt |-> 0, consecutive_failures |-> 0,
     best_score |-> 0,
     fix_in |-> [problems |-> << >>, threshold |-> 0, max_fixes |-> 0],
     fix_report |-> [attempted |-> 0, successful |-> 0, failed |-> 0],
     regen_exit |-> FALSE,
     resumed_from |-> -1, checkpointed |-> FALSE, stopped |-> FALSE,
     stop_idx |-> -1, fatal |-> FALSE, fatal_logged |-> FALSE,
     success_logged |-> FALSE, final |-> << >>]

InitWith(docs) ==
    /\ calc = NoCalc
    /\ document \in docs
    /\ is_processing = FALSE
    /\ generate_button = "normal"
    /\ resume_state = NoResume
    /\ resume_file = NoResume
    /\ files = [d \in Dirs |-> {}]
    /\ last_dir = None
    /\ w = [t \in Threads |-> IdleWorker]

Init == InitWith(Documents)

InitRetry == InitWith(SingleDocuments)

total == Len(document)

Min(S) == CHOOSE x \in S : \A y \in S : x <= y

\* attempt += 1
NextAttempt(a) == IF a < AttemptCap THEN a + 1 ELSE fallback_after_attempts + 1

\* The engine pcs: a call of f5tts.infer is in progress.
EnginePcs == {"infer", "ext", "split", "regen"}

InEngine(t) == w[t].pc \in EnginePcs

\* ------------------------------------- generate_single_phrase_with_validation
\* Entry: attempt = 1, no best candidate, the originals of nfe_steps, sway and
\* speed saved, the short-phrase parameters applied, first engine call issued.
EnterGSPV(r, txt, stg) ==
    [r EXCEPT !.pc = "infer", !.stage = stg, !.text = txt,
              !.attempt = 1, !.best_candidate = NoWave, !.scored = {},
              !.tried_ext = FALSE, !.tried_split = FALSE,
              !.gspv_orig = r.params,
              !.params = IF ShortPhrase(txt) THEN ShortPhraseParams(r.params)
                         ELSE r.params]

\* The finally block: nfe_steps, sway_sampling_coef and speed are restored.
RestoreGSPVWithoutSway(r) ==
    [r.params EXCEPT !.nfe_steps = r.gspv_orig.nfe_steps, !.speed = r.gspv_orig.speed]

RestoreGSPV(r) ==
    [r.params EXCEPT !.nfe_steps = r.gspv_orig.nfe_steps,
                     !.sway_sampling_coef = r.gspv_orig.sway_sampling_coef,
                     !.speed = r.gspv_orig.speed]

\* The locals of the call are gone once it has returned or raised.
LeaveGSPV(r) ==
    [r EXCEPT !.params = RestoreGSPV(r), !.gspv_orig = NoParams,
              !.attempt = 0, !.best_candidate = NoWave,
              !.sp_parts = << >>, !.sp_i = 0, !.sp_n = 0]

\* return wav
ReturnGSPV(r, wv) == [LeaveGSPV(r) EXCEPT !.pc = "gspv_ret", !.ret = wv]

\* best_candidate after an invalid waveform with quality score s.
BetterCandidateLatest(best, s) == WaveOf("candidate", s, FALSE)

BetterCandidate(best, s) ==
    IF best = NoWave \/ s < best.score THEN WaveOf("candidate", s, FALSE) ELSE best

\* The ceiling test of the invalid-waveform branch.
FallbackDue(a) == fallback_after_attempts # 0 /\ a >= fallback_after_attempts

\* The best-candidate test of the generic-exception branch.
ErrorFallbackDue(a, best) == a >= error_fallback_attempts /\ best # NoWave

\* The waveform returned by either fallback exit.
FallbackWave(best) == [Normalize(best) EXCEPT !.kind = "fallback"]

\* One iteration of the while True loop: f5tts.infer returns or raises.
AfterInfer(r, o) ==
    CASE o.kind = "empty" ->
            [r EXCEPT !.attempt = NextAttempt(r.attempt)]
      [] o.kind = "valid" ->
            ReturnGSPV(r, Normalize(WaveOf("valid", 0, FALSE)))
      [] o.kind = "invalid" ->
            LET best == BetterCandidate(r.best_candidate, o.score)
                r1 == [r EXCEPT !.best_candidate = best,
                                !.scored = r.scored \cup {o.score}]
            IN  IF FallbackDue(r.attempt)
                THEN ReturnGSPV(r1, FallbackWave(best))
                ELSE [r1 EXCEPT !.attempt = NextAttempt(r.attempt)]
      [] o.kind = "error" ->
            IF ErrorFallbackDue(r.attempt, r.best_candidate)
            THEN ReturnGSPV(r, FallbackWave(r.best_candidate))
            ELSE [r EXCEPT !.attempt = NextAttempt(r.attempt)]
      [] o.kind = "fatal" ->
            \* attempt and best_candidate are not read again
            [r EXCEPT !.pc = "ext", !.tried_ext = TRUE, !.engine_fatal = TRUE,
                      !.attempt = 0, !.best_candidate = NoWave, !.scored = {}]

\* The engine fails on at most the first `limit` attempts of a call.
EngineMay(o, a, limit) == o.kind \in {"valid", "fatal"} \/ a <= limit

Infer(t, limit) ==
    /\ w[t].pc = "infer"
    /\ \E o \in EngineOutcomes :
         /\ EngineMay(o, w[t].attempt, limit)
         /\ w' = [w EXCEPT ![t] = AfterInfer(w[t], o)]
    /\ UNCHANGED << calc, document, is_processing, generate_button, resume_state,
                    resume_file, files, last_dir >>

\* Output directories nothing refers to any more are forgotten.
Tidy(F, rs, rf, ld, ws) ==
    [d \in Dirs |->
        IF d \in {rs.session_dir, rf.session_dir, ld} \cup {ws[t].dir : t \in Threads}
        THEN F[d] ELSE {}]

\* The checkpoint dictionary written to resume_state.json.
Checkpoint(r) == ResumeOf(r.idx, r.dir)

\* "Si fallan fallbacks, detener como critico": the checkpoint is written and
\* SystemExit("ENGINE_STRICT_T_ERROR") raised through the finally block.
RaiseGSPV(r) ==
    [LeaveGSPV(r) EXCEPT !.pc = "gspv_exc", !.checkpointed = TRUE]

\* Step (b) is entered with the parts of _split_text_for_engine_short; with
\* a single part nothing is synthesized.
AfterExtFailedWithoutSplit(r) == RaiseGSPV(r)

AfterExtFailed(r) ==
    LET ps == SplitTextForEngineShort(r.text)
    IN  IF Len(ps) > 1
        THEN [r EXCEPT !.pc = "split", !.sp_parts = ps, !.sp_i = 1, !.sp_n = 0,
                       !.tried_split = TRUE]
        ELSE RaiseGSPV(r)

\* Recovery (a): the extended text synthesized with nfe 28, sway -0.3,
\* speed 0.95 returns or raises.
RecoverExtended(t) ==
    /\ w[t].pc = "ext"
    /\ \E o \in EngineOutcomes :
         LET r == IF o.kind = "valid"
                  THEN ReturnGSPV(w[t], Normalize(WaveOf("ext", 0, FALSE)))
                  ELSE AfterExtFailed(w[t])
         IN  /\ w' = [w EXCEPT ![t] = r]
             /\ resume_file' = IF r.pc = "gspv_exc" THEN Checkpoint(w[t])
                               ELSE resume_file
             /\ files' = Tidy(files, resume_state, resume_file', last_dir, w')
    /\ UNCHANGED << calc, document, is_processing, generate_button, resume_state, last_dir >>

\* Recovery (b): one part synthesized; after the last part the crossfaded
\* join is validated against the original text.
AfterSplitPart(r, o, joined_valid) ==
    IF o.kind \in {"error", "fatal"} THEN RaiseGSPV(r)
    ELSE LET n == IF o.kind = "empty" THEN r.sp_n ELSE r.sp_n + 1
         IN  IF r.sp_i < Len(r.sp_parts)
             THEN [r EXCEPT !.sp_i = r.sp_i + 1, !.sp_n = n]
             ELSE IF n > 0 /\ joined_valid
                  THEN ReturnGSPV(r, WaveOf("split", 0, TRUE))
                  ELSE RaiseGSPV(r)

RecoverSplit(t) ==
    /\ w[t].pc = "split"
    /\ \E o \in EngineOutcomes, joined_valid \in BOOLEAN :
         LET r == AfterSplitPart(w[t], o, joined_valid)
         IN  /\ w' = [w EXCEPT ![t] = r]
             /\ resume_file' = IF r.pc = "gspv_exc" THEN Checkpoint(w[t])
                               ELSE resume_file
             /\ files' = Tidy(files, resume_state, resume_file', last_dir, w')
    /\ UNCHANGED << calc, document, is_processing, generate_button, resume_state, last_dir >>

\* ---------------------------------------- generate_single_phrase_with_prosody
\* The finally block of the hinted branch restores all four parameters.
RestoreGSPP(r) == IF r.hinted THEN r.gspp_orig ELSE r.params

\* The locals of the sentence are gone once the wrapper has returned or raised.
LeaveGSPP(r) ==
    [r EXCEPT !.params = RestoreGSPP(r), !.hinted = FALSE, !.gspp_orig = NoParams,
              !.engine_text = NoText, !.stage = "none", !.parts = << >>,
              !.part_i = 0, !.n_audio = 0, !.chunk_i = 0, !.safe_orig = NoParams,
              !.ret = NoWave, !.scored = {}, !.tried_ext = FALSE,
              !.tried_split = FALSE, !.text = NoText, !.engine_fatal = FALSE]

\* The wrapper returns audio to process_full_mode, which appends it to
\* audio_segments and writes frases/frase_NNN.wav.
SentenceDone(r) ==
    [LeaveGSPP(r) EXCEPT !.pc = "loop", !.idx = r.idx + 1,
        !.audio_segments = Append(r.audio_segments, [sent |-> r.idx, src |-> "phase1"])]

\* "Todos los fallbacks han fallado": _engine_generate_in_parts logs, writes
\* the checkpoint and raises SystemExit, which run_generation's
\* "except Exception" does not catch.
SentenceFatal(r) ==
    [LeaveGSPP(r) EXCEPT !.pc = "run_end", !.fatal = TRUE, !.fatal_logged = TRUE,
                         !.checkpointed = TRUE]

\* _engine_generate_in_parts after its loops: nothing generated ends the
\* run, anything generated is concatenated and returned.
ConcludeParts(r) == IF r.n_audio = 0 THEN SentenceFatal(r) ELSE SentenceDone(r)

\* _generate_with_safe_params(chunk, preset='safe2').
EnterSafe(r, j) ==
    EnterGSPV([r EXCEPT !.chunk_i = j, !.safe_orig = r.params, !.params = Safe2Params],
              PrepareTextForEngine(ChunkOf(r.parts[1], j)), "micro")

\* The finally block of _generate_with_safe_params.
LeaveSafe(r) == [r EXCEPT !.params = r.safe_orig, !.safe_orig = NoParams]

\* The loop over the parts, then the micro-division when a single part
\* produced nothing.
NextPart(r) ==
    IF r.part_i < Len(r.parts)
    THEN EnterGSPV([r EXCEPT !.part_i = r.part_i + 1],
                   PrepareTextForEngine(r.parts[r.part_i + 1]), "parts")
    ELSE IF r.n_audio = 0 /\ Len(r.parts) = 1 /\ r.parts[1].words > 1
         THEN EnterSafe(r, 1)
         ELSE ConcludeParts(r)

NextChunk(r) ==
    IF r.chunk_i < NumChunks(r.parts[1]) THEN EnterSafe(r, r.chunk_i + 1)
    ELSE ConcludeParts(r)

EnterParts(r) ==
    LET ps == SplitTextForEngine(r.engine_text)
    IN  EnterGSPV([r EXCEPT !.parts = ps, !.part_i = 1, !.n_audio = 0],
                  PrepareTextForEngine(ps[1]), "parts")

\* Entry of the wrapper: hints applied, text prepared, risky texts go
\* straight to the parts.
EnterGSPP(r, s) ==
    LET h == s.hints
        et == PrepareTextForEngine(s.text)
        r0 == [r EXCEPT !.engine_text = et, !.params_before = r.params,
                        !.synthesized = r.synthesized \cup {r.idx}]
        r1 == IF h.apply_modifications
              THEN [r0 EXCEPT !.hinted = TRUE, !.gspp_orig = r.params,
                              !.params = ApplyHints(r.params, h)]
              ELSE [r0 EXCEPT !.hinted = FALSE]
    IN  IF IsRiskyTextForEngine(et) THEN EnterParts(r1)
        ELSE EnterGSPV(r1, et, "primary")

\* What the caller of generate_single_phrase_with_validation does with the
\* returned waveform.
AfterReturn(r) ==
    CASE r.stage \in {"primary", "secondary"} -> SentenceDone(r)
      [] r.stage = "parts" -> NextPart([r EXCEPT !.n_audio = r.n_audio + 1])
      [] r.stage = "micro" -> NextChunk([LeaveSafe(r) EXCEPT !.n_audio = r.n_audio + 1])

\* What the caller does with the BaseException (SystemExit) it catches.
AfterRaise(r) ==
    CASE r.stage = "primary" ->
            EnterGSPV(r, PrepareTextForEngine(r.engine_text), "secondary")
      [] r.stage = "secondary" -> EnterParts(r)
      [] r.stage = "parts" -> NextPart(r)
      [] r.stage = "micro" -> NextChunk(LeaveSafe(r))

\* Effects on the disk of a step of the wrapper that ends in r.
FilesAfter(t, r) ==
    IF r.pc = "loop"
    THEN [files EXCEPT ![w[t].dir] = @ \cup {w[t].idx}]
    ELSE files

ResumeFileAfterEverySentence(t, r) ==
    IF r.pc \in {"run_end", "loop"} THEN Checkpoint(w[t]) ELSE resume_file

ResumeFileAfter(t, r) ==
    IF r.pc = "run_end" THEN Checkpoint(w[t]) ELSE resume_file

Returned(t) ==
    /\ w[t].pc = "gspv_ret"
    /\ LET r == AfterReturn([w[t] EXCEPT !.ret = NoWave, !.scored = {},
                                          !.tried_ext = FALSE, !.tried_split = FALSE])
       IN  /\ w' = [w EXCEPT ![t] = r]
           /\ resume_file' = ResumeFileAfter(t, r)
           /\ files' = Tidy(FilesAfter(t, r), resume_state, resume_file', last_dir, w')
    /\ UNCHANGED << calc, document, is_processing, generate_button, resume_state, last_dir >>

Raised(t) ==
    /\ w[t].pc = "gspv_exc"
    /\ LET r == AfterRaise([w[t] EXCEPT !.scored = {}, !.tried_ext = FALSE,
                                         !.tried_split = FALSE])
       IN  /\ w' = [w EXCEPT ![t] = r]
           /\ resume_file' = ResumeFileAfter(t, r)
           /\ files' = Tidy(FilesAfter(t, r), resume_state, resume_file', last_dir, w')
    /\ UNCHANGED << calc, document, is_processing, generate_button, resume_state, last_dir >>

\* ------------------------------------------------------------ the GUI thread
\* start_generation disables the button it was clicked on.
ButtonOnStartNotDisabled == "normal"
ButtonOnStart == "disabled"

\* The finally block of run_generation enables it again.
ButtonOnFinish == "normal"

IdleThreads == { t \in Threads : w[t].pc = "idle" }

\* A click on "Generar Audio"; Tk delivers it only while the button is enabled.
StartGeneration ==
    /\ generate_button = "normal"
    /\ IdleThreads # {}
    /\ IF is_processing
       THEN UNCHANGED << is_processing, generate_button, w >>
       ELSE /\ is_processing' = TRUE
            /\ generate_button' = ButtonOnStart
            /\ w' = [w EXCEPT ![Min(IdleThreads)] =
                        [IdleWorker EXCEPT !.pc = "run_generation"]]
    /\ UNCHANGED << calc, document, resume_state, resume_file, files, last_dir >>

\* While a sentence is being synthesized the worker is inside the wrapper.
InSentence(r) == r.pc \in {"infer", "ext", "split", "gspv_ret", "gspv_exc"}

\* A click on "Detener".
StopGeneration ==
    /\ is_processing
    /\ is_processing' = FALSE
    /\ w' = [t \in Threads |->
                IF w[t].pc = "idle" \/ w[t].stopped THEN w[t]
                ELSE [w[t] EXCEPT !.stopped = TRUE,
                                  !.stop_idx = IF InSentence(w[t]) THEN w[t].idx
                                               ELSE IF w[t].pc \in {"run_generation", "loop"}
                                                    THEN -1 ELSE -2]]
    /\ UNCHANGED << calc, document, generate_button, resume_state, resume_file, files,
                    last_dir >>

\* The number of consecutive sentence files frase_001.wav, frase_002.wav, ...
RECURSIVE Consecutive(_, _)
Consecutive(F, i) == IF i \in F THEN Consecutive(F, i + 1) ELSE i

\* A click on "Reanudar": resume_state.json if it exists, else the last
\* output directory and the number of sentence files it holds.
LoadAndResumeSession ==
    /\ resume_state' =
          IF resume_file # NoResume THEN resume_file
          ELSE IF last_dir # None /\ Consecutive(files[last_dir], 0) > 0
               THEN ResumeOf(Consecutive(files[last_dir], 0), last_dir)
               ELSE resume_state
    /\ files' = Tidy(files, resume_state', resume_file, last_dir, w)
    /\ UNCHANGED << calc, document, is_processing, generate_button, resume_file, last_dir, w >>

\* ---------------------------------------------------------- the worker thread
\* Output directories a checkpoint or a running worker refers to; the
\* timestamped directory of a new run is none of them.
LiveDirs ==
    { resume_state.session_dir, resume_file.session_dir }
    \cup { w[t].dir : t \in Threads }

\* The segments read back from frases/ for the sentences before start_idx.
PreloadedAfterFirst(F, i, n) ==
    IF n <= 1 THEN << >> ELSE [k \in 1..(n - 1) |-> [sent |-> k, src |-> "disk"]]

RECURSIVE Preloaded(_, _, _)
Preloaded(F, i, n) ==
    IF i >= n THEN << >>
    ELSE IF i \in F THEN << [sent |-> i, src |-> "disk"] >> \o Preloaded(F, i + 1, n)
         ELSE Preloaded(F, i + 1, n)

\* The index at which run_generation tells process_full_mode to start.
StartIdxResume(rs) == IF rs.session_dir # None THEN rs.phrase_idx ELSE 0

\* run_generation up to the sentence loop of process_full_mode.
RunGeneration(t) ==
    /\ w[t].pc = "run_generation"
    /\ LET resuming == resume_state.session_dir # None
           d == IF resuming THEN resume_state.session_dir ELSE Min(Dirs \ LiveDirs)
           F == IF resuming THEN files[d] ELSE {}
           s == StartIdxResume(resume_state)
       IN  /\ last_dir' = d
           /\ w' = [w EXCEPT ![t] =
                      [@ EXCEPT !.pc = "loop", !.dir = d, !.start_idx = s, !.idx = 0,
                                !.params = DefaultParams,
                                !.resumed_from = IF resuming THEN resume_state.phrase_idx
                                                 ELSE -1,
                                !.audio_segments = Preloaded(F, 0, s)]]
           /\ files' = Tidy([files EXCEPT ![d] = F], resume_state, resume_file, d, w')
    /\ UNCHANGED << calc, document, is_processing, generate_button, resume_state, resume_file >>

\* "if idx < start_idx: continue"
SkippedThroughStart(i, s) == i <= s

Skipped(i, s) == i < s

\* The sentence loop is left for Phase 2; a stop that arrived during a
\* sentence is from now on a stop that arrived during Phase 1.
LeaveLoop(r) ==
    [r EXCEPT !.pc = "phase2", !.stop_idx = IF @ >= 0 THEN -1 ELSE @]

\* The head of the sentence loop of process_full_mode.
LoopHead(t) ==
    /\ w[t].pc = "loop"
    /\ w' = [w EXCEPT ![t] =
               IF w[t].idx >= total THEN LeaveLoop(@)
               ELSE IF Skipped(w[t].idx, w[t].start_idx) THEN [@ EXCEPT !.idx = @ + 1]
               ELSE IF ~is_processing THEN LeaveLoop(@)
               ELSE EnterGSPP(w[t], document[w[t].idx + 1])]
    /\ UNCHANGED << calc, document, is_processing, generate_button, resume_state,
                    resume_file, files, last_dir >>

\* --------------------------------------------------- Phase 2 and the assembly
\* _evaluate_fix scores scaled by 10; 0 stands for an empty waveform, which is
\* also what _generate_with_params turns every engine exception into.
FixOutcomes == {0, 5, 8, 9}

\* "if best_candidate is not None and best_score > 0.5"
FixAppliesFromHalf(score) == score >= 5

FixApplies(score) == score > 5

\* "if score > 0.8: break"
FixGoodEnough(score) == score > 8

\* process_full_mode returns; run_generation logs the success.
Assembled(r) ==
    [r EXCEPT !.pc = "run_end", !.final = r.audio_segments, !.success_logged = TRUE,
              !.problems = 0, !.fix_attempt = 0, !.consecutive_failures = 0,
              !.best_score = 0]

\* The first regeneration call for the next critical problem:
\* fix_report['attempted'] += 1.
NextProblem(r, n) ==
    [r EXCEPT !.pc = "regen", !.problems = n, !.fix_attempt = 0,
              !.consecutive_failures = 0, !.best_score = 0,
              !.fix_report.attempted = @ + 1]

\* s[:m] of Python.
Slice(s, m) ==
    LET n == IF m >= 0 THEN (IF m < Len(s) THEN m ELSE Len(s))
             ELSE (IF Len(s) + m > 0 THEN Len(s) + m ELSE 0)
    IN  SubSeq(s, 1, n)

AboveThreshold(sev, th) == sev > th

\* "[p for p in problems if p['severity'] > severity_threshold][:self.max_fixes]"
\* on the list of the severities of the problems.
CriticalProblemsUnsliced(ps, th, m) ==
    SelectSeq(ps, LAMBDA sev : AboveThreshold(sev, th))

CriticalProblems(ps, th, m) ==
    Slice(SelectSeq(ps, LAMBDA sev : AboveThreshold(sev, th)), m)

\* The problem lists of the pipeline: up to MaxProblems problems, all of a
\* severity above the threshold of Phase 2.
PipelineProblems ==
    { [i \in 1..n |-> severity_threshold + 10] : n \in 0..MaxProblems }

\* After the sentence loop: without segments the method returns; otherwise
\* the analysis reports its problems and fix_critical_problems runs on them
\* with a threshold and a max_fixes.
PostProcessWith(t, lists, thresholds, limits) ==
    /\ w[t].pc = "phase2"
    /\ IF w[t].audio_segments = << >>
       THEN /\ w' = [w EXCEPT ![t] = [@ EXCEPT !.pc = "run_end", !.success_logged = TRUE]]
            /\ UNCHANGED files
       ELSE \E ps \in lists, th \in thresholds, m \in limits :
              LET n  == Len(CriticalProblems(ps, th, m))
                  r0 == [w[t] EXCEPT !.fix_in = [problems |-> ps, threshold |-> th,
                                                 max_fixes |-> m],
                                     !.fix_report = [attempted |-> 0, successful |-> 0,
                                                     failed |-> 0]]
              IN  /\ w' = [w EXCEPT ![t] = IF n = 0 THEN Assembled(r0)
                                           ELSE NextProblem(r0, n)]
                  /\ UNCHANGED files
    /\ UNCHANGED << calc, document, is_processing, generate_button, resume_state,
                    resume_file, last_dir >>

PostProcess(t) ==
    PostProcessWith(t, PipelineProblems, {severity_threshold}, {phase2_max_fixes})

\* The segment list after the attempts for one problem of segment seg.
FixedSegments(r, best, seg) ==
    IF FixApplies(best)
    THEN [r.audio_segments EXCEPT ![seg] = [@ EXCEPT !.src = "phase2"]]
    ELSE r.audio_segments

\* fix_report after the attempts for one problem.
FixReported(r, best) ==
    IF FixApplies(best)
    THEN [r.fix_report EXCEPT !.successful = @ + 1]
    ELSE [r.fix_report EXCEPT !.failed = @ + 1]

\* One attempt of fix_critical_problems with no limit on consecutive
\* failures.
AfterRegenUnbroken(r, o, seg) ==
    LET cf == IF o = 0 THEN r.consecutive_failures + 1 ELSE 0
        best == IF o > r.best_score THEN o ELSE r.best_score
        over == FixGoodEnough(o) \/ r.fix_attempt + 1 >= regen_max_attempts
        r1 == [r EXCEPT !.audio_segments = FixedSegments(r, best, seg),
                        !.fix_report = FixReported(r, best)]
    IN  IF ~over
        THEN [r EXCEPT !.fix_attempt = r.fix_attempt + 1, !.consecutive_failures = cf,
                       !.best_score = best]
        ELSE IF r.problems > 1 THEN NextProblem(r1, r.problems - 1)
             ELSE Assembled(r1)

\* One attempt of fix_critical_problems: _generate_with_params returns.  The
\* segment the problem belongs to is only read when the fix is applied, and
\* is drawn then.
AfterRegen(r, o, seg) ==
    LET cf == IF o = 0 THEN r.consecutive_failures + 1 ELSE 0
        best == IF o > r.best_score THEN o ELSE r.best_score
        over == \/ (o = 0 /\ cf >= regen_max_failures)
                \/ FixGoodEnough(o)
                \/ r.fix_attempt + 1 >= regen_max_attempts
        r1 == [r EXCEPT !.audio_segments = FixedSegments(r, best, seg),
                        !.fix_report = FixReported(r, best)]
    IN  IF ~over
        THEN [r EXCEPT !.fix_attempt = r.fix_attempt + 1, !.consecutive_failures = cf,
                       !.best_score = best]
        ELSE IF r.problems > 1 THEN NextProblem(r1, r.problems - 1)
             ELSE Assembled(r1)

\* What generator.infer may do in a regeneration call: a waveform (with the
\* score _evaluate_fix gives it), an empty waveform, a generic exception or
\* the "t must be strictly increasing or decreasing" exception.
RegenEngineOutcomes ==
    { [kind |-> "audio", score |-> sc] : sc \in FixOutcomes \ {0} }
    \cup { [kind |-> k, score |-> 0] : k \in {"empty", "error", "fatal"} }

\* _generate_with_params: "except Exception" turns every exception of the
\* engine into an empty array.
GenerateWithParamsRaising(o) == o

GenerateWithParams(o) ==
    IF o.kind = "audio" THEN o ELSE [kind |-> "empty", score |-> 0]

\* sys.exit(1) in the except branch of the attempt loop: SystemExit leaves
\* fix_critical_problems, process_full_mode and run_generation.
RegenExit(r) ==
    [r EXCEPT !.pc = "run_end", !.regen_exit = TRUE, !.problems = 0,
              !.fix_attempt = 0, !.consecutive_failures = 0, !.best_score = 0]

\* One pass of the attempt loop for what _generate_with_params did.  An
\* exception that reaches the loop counts as a failure, unless its message is
\* the engine's "must be strictly increasing", which exits.
AfterAttempt(r, g, seg) ==
    CASE g.kind = "fatal" -> RegenExit(r)
      [] g.kind \in {"empty", "error"} -> AfterRegen(r, 0, seg)
      [] OTHER -> AfterRegen(r, g.score, seg)

Regenerate(t) ==
    /\ w[t].pc = "regen"
    /\ \E g \in { GenerateWithParams(e) : e \in RegenEngineOutcomes },
          seg \in 1..Len(w[t].audio_segments) :
         LET r == AfterAttempt(w[t], g, seg)
         IN  /\ r.audio_segments = w[t].audio_segments => seg = 1
             /\ w' = [w EXCEPT ![t] = r]
             /\ files' = IF r.pc = "run_end" /\ ~r.regen_exit
                         THEN [files EXCEPT ![w[t].dir] =
                                 @ \cup { i - 1 : i \in 1..Len(r.audio_segments) }]
                         ELSE files
    /\ UNCHANGED << calc, document, is_processing, generate_button, resume_state,
                    resume_file, last_dir >>

\* The finally block of run_generation; the thread ends.
RunFinally(t) ==
    /\ w[t].pc = "run_end"
    /\ is_processing' = FALSE
    /\ generate_button' = ButtonOnFinish
    /\ w' = [w EXCEPT ![t] = IdleWorker]
    /\ files' = Tidy(files, resume_state, resume_file, last_dir, w')
    /\ UNCHANGED << calc, document, resume_state, resume_file, last_dir >>

WorkerStep(t, limit) ==
    \/ RunGeneration(t)
    \/ LoopHead(t)
    \/ Infer(t, limit)
    \/ RecoverExtended(t)
    \/ RecoverSplit(t)
    \/ Returned(t)
    \/ Raised(t)
    \/ PostProcess(t)
    \/ Regenerate(t)
    \/ RunFinally(t)

NextWith(limit) ==
    \/ StartGeneration
    \/ StopGeneration
    \/ LoadAndResumeSession
    \/ \E t \in Threads : WorkerStep(t, limit)

\* The pipeline on documents of several sentences.
Next == NextWith(MaxRetries)

Spec == Init /\ [][Next]_vars

\* One run after another on one-sentence documents, never stopped or
\* resumed, the engine free to fail forever.
RetryNext ==
    \/ StartGeneration
    \/ \E t \in Threads : WorkerStep(t, AttemptCap + 1)

RetrySpec == InitRetry /\ [][RetryNext]_vars

\* The worker thread keeps running as long as it has a step to take.
FairRetrySpec ==
    RetrySpec /\ \A t \in Threads : WF_vars(WorkerStep(t, AttemptCap + 1))

\* ------------------------------------------------- the regenerator on its own
\* The worker of an unstopped first run after Phase 1.
AfterPhase1 ==
    [IdleWorker EXCEPT !.pc = "phase2", !.dir = 1, !.idx = 3,
                       !.params = DefaultParams, !.params_before = DefaultParams,
                       !.synthesized = {0, 1, 2},
                       !.audio_segments = [i \in 1..3 |-> [sent |-> i - 1, src |-> "phase1"]]]

InitRegen ==
    /\ calc = NoCalc
    /\ document \in Documents
    /\ is_processing = TRUE
    /\ generate_button = "disabled"
    /\ resume_state = NoResume
    /\ resume_file = NoResume
    /\ files = [d \in Dirs |-> IF d = 1 THEN {0, 1, 2} ELSE {}]
    /\ last_dir = 1
    /\ w = [t \in Threads |-> IF t = 1 THEN AfterPhase1 ELSE IdleWorker]

\* The inputs of fix_critical_problems: lists of severities (scaled by
\* 100) on either side of the thresholds, and small values of max_fixes.
RECURSIVE ListsOver(_, _)
ListsOver(S, n) ==
    IF n = 0 THEN { << >> }
    ELSE ListsOver(S, n - 1)
         \cup { Append(l, x) : l \in { m \in ListsOver(S, n - 1) : Len(m) = n - 1 }, x \in S }

Severities == {30, 40, 50}
Thresholds == {severity_threshold, 45}
MaxFixesInputs == 0..2

\* fix_critical_problems(problems, audio_segments, texts, severity_threshold)
FixCriticalProblems(t) ==
    PostProcessWith(t, ListsOver(Severities, MaxListed), Thresholds, MaxFixesInputs)

RegenNext == \E t \in Threads : FixCriticalProblems(t) \/ Regenerate(t)

RegenSpec == InitRegen /\ [][RegenNext]_vars

\* ------------------------------------------------- functions on their own
\* The other variables while a function is applied on its own.
InitCalc(inputs) ==
    /\ calc \in inputs
    /\ document \in Documents
    /\ is_processing = FALSE
    /\ generate_button = "normal"
    /\ resume_state = NoResume
    /\ resume_file = NoResume
    /\ files = [d \in Dirs |-> {}]
    /\ last_dir = None
    /\ w = [t \in Threads |-> IdleWorker]

CalcFrame ==
    UNCHANGED << document, is_processing, generate_button, resume_state,
                 resume_file, files, last_dir, w >>

\* ------------------------------------------------------ assembly of segments
\* A waveform is its sequence of samples, scaled by 100.  The sample rate is
\* scaled down so that the 50 ms crossfade of smart_concatenate is two
\* samples and the 150 ms crossfade of apply_crossfade_and_concatenate six.
CrossfadeSamples(ms) == (ms * ModelRate) \div 1000

\* 100 * np.cos(np.linspace(0, np.pi/2, n)) and 100 * np.sin(...) of it
CosRamp(n) ==
    CASE n = 1 -> << 100 >>
      [] n = 2 -> << 100, 0 >>
      [] n = 3 -> << 100, 71, 0 >>

SinRamp(n) ==
    CASE n = 1 -> << 0 >>
      [] n = 2 -> << 0, 100 >>
      [] n = 3 -> << 0, 71, 100 >>

\* 100 * np.linspace(1.0, 0.0, n) and 100 * np.linspace(0.0, 1.0, n)
LinDown(n) == [k \in 1..n |-> IF n = 1 THEN 100 ELSE 100 - (100 * (k - 1)) \div (n - 1)]

LinUp(n) == [k \in 1..n |-> IF n = 1 THEN 0 ELSE (100 * (k - 1)) \div (n - 1)]

Scaled(sample, factor) == (sample * factor) \div 100

\* a[-n:] * ramp
TailTimes(a, n, ramp) == [k \in 1..n |-> Scaled(a[Len(a) - n + k], ramp[k])]

\* a[:n] * ramp
HeadTimes(a, n, ramp) == [k \in 1..n |-> Scaled(a[k], ramp[k])]

\* np.concatenate([result[:-n], result_end + segment_start, next_seg[n:]])
Overlapped(result, next_seg, n, down, up) ==
    SubSeq(result, 1, Len(result) - n)
    \o [k \in 1..n |-> TailTimes(result, n, down)[k] + HeadTimes(next_seg, n, up)[k]]
    \o SubSeq(next_seg, n + 1, Len(next_seg))

\* result[-crossfade_samples:] *= fade_out, the array after the statement
FadedInPlace(result, n) ==
    [k \in 1..Len(result) |->
        IF k > Len(result) - n THEN Scaled(result[k], CosRamp(n)[k - (Len(result) - n)])
        ELSE result[k]]

SmartCrossfades(result, next_seg, n) == Len(result) > n /\ Len(next_seg) > n

\* One iteration of the loop of smart_concatenate.
SmartJoin(result, next_seg, n) ==
    IF SmartCrossfades(result, next_seg, n)
    THEN Overlapped(result, next_seg, n, CosRamp(n), SinRamp(n))
    ELSE result \o next_seg

RECURSIVE SmartFold(_, _, _, _)
SmartFold(result, segments, i, n) ==
    IF i > Len(segments) THEN result
    ELSE SmartFold(SmartJoin(result, segments[i], n), segments, i + 1, n)

\* smart_concatenate(segments, crossfade_ms, sr), the array returned
SmartConcatenated(segments, ms) ==
    IF segments = << >> THEN << >>
    ELSE IF Len(segments) = 1 THEN segments[1]
    ELSE SmartFold(segments[1], segments, 2, CrossfadeSamples(ms))

\* smart_concatenate, the caller's list after the call: result is
\* segments[0] itself until the first np.concatenate, so that the in-place
\* fade of the first iteration is applied to the first segment of the list.
SegmentsAfterSmart(segments, ms) ==
    IF Len(segments) >= 2
       /\ SmartCrossfades(segments[1], segments[2], CrossfadeSamples(ms))
    THEN [segments EXCEPT ![1] = FadedInPlace(@, CrossfadeSamples(ms))]
    ELSE segments

\* One iteration of the loop of apply_crossfade_and_concatenate, after
\* pausa samples of silence.
ApplyJoin(result, current_segment, n, pausa) ==
    LET padded == result \o [k \in 1..pausa |-> 0]
    IN  IF Len(padded) >= n /\ Len(current_segment) >= n
        THEN Overlapped(padded, current_segment, n, LinDown(n), LinUp(n))
        ELSE padded \o current_segment

\* _calcular_pausa_entre_segmentos, in samples: 400 ms before every tenth
\* segment (the control matrix of the orchestrator is absent).
PausaEntreSegmentos(i) ==
    IF i > 0 /\ i % 10 = 0 THEN (400 * ModelRate) \div 1000 ELSE 0

RECURSIVE ApplyFold(_, _, _, _)
ApplyFold(result, segments, i, n) ==
    IF i > Len(segments) THEN result
    ELSE ApplyFold(ApplyJoin(result, segments[i], n, PausaEntreSegmentos(i - 1)),
                   segments, i + 1, n)

\* apply_crossfade_and_concatenate(audio_segments), the array returned; it
\* multiplies into new arrays and leaves the list as it was.
CrossfadeConcatenated(segments) ==
    IF segments = << >> THEN << >>
    ELSE IF Len(segments) = 1 THEN segments[1]
    ELSE ApplyFold(segments[1], segments, 2, CrossfadeSamples(apply_crossfade_ms))

\* The waveforms the engine hands over: shorter than, as long as and longer
\* than either crossfade.
Waveforms ==
    { [k \in 1..n |-> v] : n \in {2, 3, 7}, v \in {100, -50} }

\* The end of process_full_mode from the Phase 1 assembly on, for every list
\* of up to MaxSegments accepted segments; accepted records the waveforms as
\* they were accepted or put in place of an accepted one.
ConcatInputs ==
    { [op |-> "concat", pc |-> "fase1", segments |-> l, accepted |-> l,
       fase1 |-> << >>, final |-> << >>] :
        l \in ListsOver(Waveforms, MaxSegments) \ { << >> } }

\* fase1_audio = generator.apply_crossfade_and_concatenate(audio_segments)
SaveFase1 ==
    /\ calc.op = "concat" /\ calc.pc = "fase1"
    /\ calc' = [calc EXCEPT !.pc = "phase2",
                            !.fase1 = CrossfadeConcatenated(calc.segments)]
    /\ CalcFrame

\* Phase 2: the analysis reads the segments; fix_critical_problems copies
\* the list and puts the best candidate in the place of a segment, or
\* leaves the list as it is.
FixSegments ==
    /\ calc.op = "concat" /\ calc.pc = "phase2"
    /\ \/ calc' = [calc EXCEPT !.pc = "final"]
       \/ \E i \in 1..Len(calc.segments), best \in Waveforms :
            /\ best # calc.segments[i]
            /\ calc' = [calc EXCEPT !.pc = "final", !.segments[i] = best,
                                    !.accepted[i] = best]
    /\ CalcFrame

\* final_audio = smart_concatenate(audio_segments, crossfade_ms=50, sr=...)
SaveFinal ==
    /\ calc.op = "concat" /\ calc.pc = "final"
    /\ calc' = [calc EXCEPT !.pc = "done",
                            !.final = SmartConcatenated(calc.segments, smart_crossfade_ms),
                            !.segments = SegmentsAfterSmart(calc.segments, smart_crossfade_ms)]
    /\ CalcFrame

ConcatNext == SaveFase1 \/ FixSegments \/ SaveFinal

ConcatSpec == InitCalc(ConcatInputs) /\ [][ConcatNext]_vars

\* ------------------------------------------------------ detection of problems
\* One entry of the analysis map as analyze_complete_audio builds it: the
\* text, whether a window lies in the release zone, and, when some window has
\* a pitch, the start, middle and end pitch in Hz.  A text is its ending and
\* the special word it contains; its windows carry no text_snippet and the
\* entry carries no pitch_mean.
Endings == {".", "...", "?", "!", ","}

Palabras == {"ninguna", "siempre", "silencio", "vigilia", "importante"}

Pitches == {60, 100, 200}

AnalysedSegments ==
    { [ending |-> e, palabra |-> p, release |-> r, pitched |-> TRUE,
       pitch_start |-> a, pitch_middle |-> m, pitch_end |-> z] :
        e \in Endings, p \in Palabras, r \in BOOLEAN,
        a \in Pitches, m \in Pitches, z \in Pitches }
    \cup
    { [ending |-> e, palabra |-> p, release |-> r, pitched |-> FALSE,
       pitch_start |-> 0, pitch_middle |-> 0, pitch_end |-> 0] :
        e \in Endings, p \in Palabras, r \in BOOLEAN }

\* _is_paragraph_end: re.search(r'[.!?]\s*$', text.strip())
IsParagraphEnd(seg) == seg.ending \in {".", "...", "?", "!"}

\* '?' in text
IsQuestion(seg) == seg.ending = "?"

\* _detect_sentence_type
DetectSentenceType(seg) ==
    IF seg.ending = "?" THEN "interrogative"
    ELSE IF seg.ending = "!" THEN "exclamative"
    ELSE IF seg.ending = "..." THEN "suspensive"
    ELSE "declarative"

Abs(x) == IF x < 0 THEN -x ELSE x

Max2(a, b) == IF a > b THEN a ELSE b

Min2(a, b) == IF a < b THEN a ELSE b

\* pitch * (1 + rule), scaled by 100, for a rule given in percent
Expected100(pitch, rule) == pitch * (100 + rule)

\* abs(actual - expected) / max(expected, 1), scaled by 1000
Severity(actual, expected100) ==
    (Abs(actual * 100 - expected100) * 1000) \div Max2(expected100, 100)

\* abs(actual - expected) / max(abs(expected), 1), scaled by 1000
SeverityAbs(actual, expected100) ==
    (Abs(actual * 100 - expected100) * 1000) \div Max2(Abs(expected100), 100)

ProblemOf(type, severity) == [type |-> type, severity |-> severity]

\* Problema 1 and, on its elif, Problema 2
CadenceProblems(seg) ==
    IF IsParagraphEnd(seg) /\ DetectSentenceType(seg) = "declarative"
    THEN IF seg.pitched
            /\ seg.pitch_end * 100 > Expected100(seg.pitch_start, paragraph_end_drop)
            /\ seg.pitch_end > 0
         THEN << ProblemOf("missing_paragraph_cadence",
                           Severity(seg.pitch_end, Expected100(seg.pitch_start, paragraph_end_drop))) >>
         ELSE << >>
    ELSE IF IsQuestion(seg)
    THEN IF seg.pitched
            /\ seg.pitch_end * 100 < Expected100(seg.pitch_middle, question_rise)
            /\ seg.pitch_end > 0
         THEN << ProblemOf("missing_question_rise",
                           Severity(seg.pitch_end, Expected100(seg.pitch_middle, question_rise))) >>
         ELSE << >>
    ELSE << >>

\* palabras_especiales['finales_definitivos'], the words of it in Palabras
FinalesDefinitivos == {"siempre", "silencio", "vigilia"}

\* Problema 5 of the loop: severity * 1.3, not clamped
DefinitiveEndingProblems(seg) ==
    IF seg.palabra \in FinalesDefinitivos /\ IsParagraphEnd(seg) /\ seg.pitched
       /\ seg.pitch_end * 1000 > Expected100(seg.pitch_start, descenso_final_fuerte) * 11
    THEN << ProblemOf("missing_definitive_ending",
                      (Severity(seg.pitch_end, Expected100(seg.pitch_start, descenso_final_fuerte)) * 13) \div 10) >>
    ELSE << >>

\* arc_slope = (pitch_end - pitch_start) / pitch_start, scaled by 1000
ArcSlope(seg) == ((seg.pitch_end - seg.pitch_start) * 1000) \div seg.pitch_start

\* Problema 6 of the loop: min(abs(arc_slope - arc_slope_ideal), 1.0) * 0.8
ArcProblems(seg) ==
    IF seg.pitched /\ ArcSlope(seg) > 100
    THEN << ProblemOf("inverted_prosodic_arc",
                      (Min2(Abs(ArcSlope(seg) - arc_slope_ideal * 10), 1000) * 8) \div 10) >>
    ELSE << >>

\* _es_final_definitivo
EsFinalDefinitivo(seg) ==
    \/ seg.palabra = "siempre"
    \/ IsParagraphEnd(seg) /\ seg.ending \in {".", "..."}

\* _verificar_final_definitivo: min(severity, 1.0)
VerificarFinalDefinitivo(seg) ==
    IF seg.pitched
       /\ seg.pitch_end * 100 > Expected100(seg.pitch_start, descenso_final_fuerte)
       /\ seg.pitch_end > 0
    THEN << ProblemOf("missing_definitive_ending",
                      Min2(SeverityAbs(seg.pitch_end, Expected100(seg.pitch_start, descenso_final_fuerte)), 1000)) >>
    ELSE << >>

\* The problems of one entry in the order the loop appends them.  The
\* micro-ascent and emphasis checks look for the word in the text_snippet
\* of a window and _verificar_enfasis_palabra for pitch_mean in the entry:
\* neither is there, and _verificar_variacion_velocidad returns None.
ProblemsOfSegment(seg) ==
    IF ~seg.release THEN << >>
    ELSE CadenceProblems(seg) \o DefinitiveEndingProblems(seg) \o ArcProblems(seg)
         \o (IF EsFinalDefinitivo(seg) THEN VerificarFinalDefinitivo(seg) ELSE << >>)

\* sorted(problems, key=lambda x: x['severity'], reverse=True): stable
RECURSIVE SortedBySeverity(_)
SortedBySeverity(ps) ==
    IF ps = << >> THEN << >>
    ELSE LET m == CHOOSE i \in 1..Len(ps) :
                    /\ \A j \in 1..Len(ps) : ps[j].severity <= ps[i].severity
                    /\ \A j \in 1..(i - 1) : ps[j].severity < ps[i].severity
         IN  << ps[m] >> \o SortedBySeverity([k \in 1..(Len(ps) - 1) |->
                                                 IF k < m THEN ps[k] ELSE ps[k + 1]])

RECURSIVE ProblemsOfMap(_)
ProblemsOfMap(analysis_map) ==
    IF analysis_map = << >> THEN << >>
    ELSE ProblemsOfSegment(Head(analysis_map)) \o ProblemsOfMap(Tail(analysis_map))

DetectInputs ==
    { [op |-> "detect", pc |-> "analysis", analysis_map |-> << seg >>, problems |-> << >>] :
        seg \in AnalysedSegments }

\* problems = detector.identify_problems(analysis)
IdentifyProblems ==
    /\ calc.op = "detect" /\ calc.pc = "analysis"
    /\ calc' = [calc EXCEPT !.pc = "done",
                            !.problems = SortedBySeverity(ProblemsOfMap(calc.analysis_map))]
    /\ CalcFrame

DetectNext == IdentifyProblems

DetectSpec == InitCalc(DetectInputs) /\ [][DetectNext]_vars

\* ------------------------------------------------------------ segmentation
\* A text is the sequence of its tokens: a word, or one character of
\* punctuation or white space; Len of a token is its number of characters.
\* The texts hold no quotes, colons, semicolons, dashes or line breaks, so
\* that the substitutions of split_into_sentences for these find nothing.
FRASE_BREAK == "<FRASE_BREAK>"

DOT == "<DOT>"

Terminals == {".", "!", "?"}

Openers == {"¡", "¿"}

NonWords == Terminals \cup Openers \cup {" ", ",", FRASE_BREAK, DOT, ""}

IsWord(c) == c \notin NonWords

\* r'\b(Sr|Sra|Dr|Dra|St|Sto|Sta)'
Abbreviations == {"Sr", "Sra", "Dr", "Dra", "St", "Sto", "Sta"}

\* The words of the texts that begin with [A-ZÁÉÍÓÚÑ].
CapitalWords ==
    {"Así", "Dr", "El", "Espero", "Finalmente", "Hola", "Nadie", "Oye", "Para", "Pero", "Ruiz", "Sin", "Sí", "También", "Uno", "Vale", "Vienes"}

\* The words of the texts matched by the connector patterns of
\* _split_long_sentence after a comma.
Connectors ==
    << {"y", "pero", "cuando", "donde", "que", "mientras"},
       {"luego", "entonces"},
       {"aunque", "salvo"} >>

\* current.lower() in {"oye", "eh", "ey", "hey"}
Interjections == {"oye", "Oye", "eh", "Eh", "ey", "Ey", "hey", "Hey"}

At(t, i) == IF i \in 1..Len(t) THEN t[i] ELSE ""

RECURSIVE CharLen(_)
CharLen(t) == IF t = << >> THEN 0 ELSE Len(Head(t)) + CharLen(Tail(t))

\* The index in characters, from 0, of token i.
CharStart(t, i) == CharLen(SubSeq(t, 1, i - 1))

RECURSIVE SkipSpaces(_, _)
SkipSpaces(t, i) == IF At(t, i) = " " THEN SkipSpaces(t, i + 1) ELSE i

RECURSIVE LStripSet(_, _)
LStripSet(t, S) == IF t # << >> /\ Head(t) \in S THEN LStripSet(Tail(t), S) ELSE t

RECURSIVE RStripSet(_, _)
RStripSet(t, S) ==
    IF t # << >> /\ t[Len(t)] \in S THEN RStripSet(SubSeq(t, 1, Len(t) - 1), S) ELSE t

StripSet(t, S) == RStripSet(LStripSet(t, S), S)

\* str.strip()
Strip(t) == StripSet(t, {" "})

RECURSIVE FirstIndex(_, _, _)
FirstIndex(t, i, c) ==
    IF i > Len(t) THEN 0 ELSE IF t[i] = c THEN i ELSE FirstIndex(t, i + 1, c)

RECURSIVE Flatten(_)
Flatten(lists) == IF lists = << >> THEN << >> ELSE Head(lists) \o Flatten(Tail(lists))

\* F of the value of v: an assignment "x = v" followed by the statements
\* F that read x.
Bind(v, F(_)) == CHOOSE r \in { F(x) : x \in {v} } : TRUE

\* re.sub(r'\b(Sr|Sra|Dr|Dra|St|Sto|Sta)\.\s*', r'\1<DOT> ', text)
RECURSIVE ProtectAbbreviations(_, _)
ProtectAbbreviations(t, i) ==
    IF i > Len(t) THEN << >>
    ELSE IF t[i] \in Abbreviations /\ At(t, i + 1) = "."
    THEN << t[i], DOT, " " >> \o ProtectAbbreviations(t, SkipSpaces(t, i + 2))
    ELSE << t[i] >> \o ProtectAbbreviations(t, i + 1)

\* re.sub(r'([.!?])\s*([¡¿])', r'\1<FRASE_BREAK>\2', text); after it the
\* same substitution with \s{2,} finds nothing.
RECURSIVE BreakBeforeOpeners(_, _)
BreakBeforeOpeners(t, i) ==
    IF i > Len(t) THEN << >>
    ELSE IF t[i] \in Terminals /\ At(t, SkipSpaces(t, i + 1)) \in Openers
    THEN << t[i], FRASE_BREAK, t[SkipSpaces(t, i + 1)] >>
         \o BreakBeforeOpeners(t, SkipSpaces(t, i + 1) + 1)
    ELSE << t[i] >> \o BreakBeforeOpeners(t, i + 1)

\* re.sub(r'¡([^!]+)!', r'<FRASE_BREAK>¡\1!<FRASE_BREAK>', text), and the
\* same for '¿' and '?'
RECURSIVE IsolateBlocks(_, _, _, _)
IsolateBlocks(t, i, open, close) ==
    IF i > Len(t) THEN << >>
    ELSE IF t[i] = open /\ FirstIndex(t, i + 1, close) > i + 1
    THEN << FRASE_BREAK >> \o SubSeq(t, i, FirstIndex(t, i + 1, close)) \o << FRASE_BREAK >>
         \o IsolateBlocks(t, FirstIndex(t, i + 1, close) + 1, open, close)
    ELSE << t[i] >> \o IsolateBlocks(t, i + 1, open, close)

\* re.sub(r'(?<!^)¡', r'<FRASE_BREAK>¡', text), and the same for '¿'
BreakAtOpeners(t, open) ==
    Flatten([i \in 1..Len(t) |->
                IF t[i] = open /\ i > 1 THEN << FRASE_BREAK, open >> ELSE << t[i] >>])

\* re.sub(r'!\s*', r'!<FRASE_BREAK>', text), and the same for '?'
RECURSIVE BreakAfterClosers(_, _, _)
BreakAfterClosers(t, i, close) ==
    IF i > Len(t) THEN << >>
    ELSE IF t[i] = close
    THEN << close, FRASE_BREAK >> \o BreakAfterClosers(t, SkipSpaces(t, i + 1), close)
    ELSE << t[i] >> \o BreakAfterClosers(t, i + 1, close)

\* re.sub(r'(?:<FRASE_BREAK>){2,}', '<FRASE_BREAK>', text)
RECURSIVE CollapseBreaks(_)
CollapseBreaks(t) ==
    IF t = << >> THEN << >>
    ELSE IF Head(t) = FRASE_BREAK /\ At(t, 2) = FRASE_BREAK THEN CollapseBreaks(Tail(t))
    ELSE << Head(t) >> \o CollapseBreaks(Tail(t))

\* re.sub(r'\.\.\.\s*', '...<FRASE_BREAK>', text)
RECURSIVE BreakAfterEllipsis(_, _)
BreakAfterEllipsis(t, i) ==
    IF i > Len(t) THEN << >>
    ELSE IF t[i] = "." /\ At(t, i + 1) = "." /\ At(t, i + 2) = "."
    THEN << ".", ".", ".", FRASE_BREAK >> \o BreakAfterEllipsis(t, SkipSpaces(t, i + 3))
    ELSE << t[i] >> \o BreakAfterEllipsis(t, i + 1)

\* The text of split_into_sentences with all its markers inserted.
WithBreaks(text) ==
    Bind(ProtectAbbreviations(text, 1), LAMBDA t0 :
    Bind(BreakBeforeOpeners(t0, 1), LAMBDA t1 :
    Bind(IsolateBlocks(t1, 1, "¡", "!"), LAMBDA t2 :
    Bind(IsolateBlocks(t2, 1, "¿", "?"), LAMBDA t3 :
    Bind(BreakAtOpeners(t3, "¡"), LAMBDA t4 :
    Bind(BreakAtOpeners(t4, "¿"), LAMBDA t5 :
    Bind(BreakAfterClosers(t5, 1, "!"), LAMBDA t6 :
    Bind(BreakAfterClosers(t6, 1, "?"), LAMBDA t7 :
    Bind(CollapseBreaks(t7), LAMBDA t8 :
    Bind(BreakAfterEllipsis(t8, 1), LAMBDA t9 : CollapseBreaks(t9)))))))))))

\* text.split(sep)
RECURSIVE SplitOn(_, _)
SplitOn(t, sep) ==
    IF FirstIndex(t, 1, sep) = 0 THEN << t >>
    ELSE << SubSeq(t, 1, FirstIndex(t, 1, sep) - 1) >>
         \o SplitOn(SubSeq(t, FirstIndex(t, 1, sep) + 1, Len(t)), sep)

\* part.replace('<DOT>', '.')
RestoreDots(t) == [i \in 1..Len(t) |-> IF t[i] = DOT THEN "." ELSE t[i]]

\* The first match of r'(firsts)\s*([¡¿])', as the index of its first
\* token; 0 when there is none.
RECURSIVE SearchBeforeOpener(_, _, _)
SearchBeforeOpener(t, i, firsts) ==
    IF i > Len(t) THEN 0
    ELSE IF t[i] \in firsts /\ At(t, SkipSpaces(t, i + 1)) \in Openers THEN i
    ELSE SearchBeforeOpener(t, i + 1, firsts)

\* The first match of r'(firsts)\s+([A-ZÁÉÍÓÚÑ])'.
RECURSIVE SearchBeforeCapital(_, _, _)
SearchBeforeCapital(t, i, firsts) ==
    IF i > Len(t) THEN 0
    ELSE IF t[i] \in firsts /\ At(t, i + 1) = " "
            /\ At(t, SkipSpaces(t, i + 1)) \in CapitalWords THEN i
    ELSE SearchBeforeCapital(t, i + 1, firsts)

\* texto[:pos].strip() and texto[pos:].strip(), pos the second group of a
\* match that starts at token m
PartsAt(t, m) ==
    << Strip(SubSeq(t, 1, SkipSpaces(t, m + 1) - 1)),
       Strip(SubSeq(t, SkipSpaces(t, m + 1), Len(t))) >>

BothParts(p) == p[1] # << >> /\ p[2] # << >>

\* _divide_simple_sentence and _dividir_frase_simple, which are the same
DivideSimpleSentence(t) ==
    LET m1 == SearchBeforeOpener(t, 1, {"!", "?"})
        m2 == SearchBeforeOpener(t, 1, Terminals)
        m3 == SearchBeforeCapital(t, 1, {"!", "?"})
        m4 == SearchBeforeCapital(t, 1, {"."})
    IN  IF m1 # 0 /\ BothParts(PartsAt(t, m1)) THEN PartsAt(t, m1)
        ELSE IF m2 > 1 /\ BothParts(PartsAt(t, m2)) THEN PartsAt(t, m2)
        ELSE IF m3 # 0 /\ BothParts(PartsAt(t, m3)) THEN PartsAt(t, m3)
        ELSE IF m4 # 0 /\ BothParts(PartsAt(t, m4)) /\ CharLen(PartsAt(t, m4)[1]) > 3
        THEN PartsAt(t, m4)
        ELSE << t >>

\* The loop "while changes" of _separate_exclamations_questions.
RECURSIVE DivideAll(_)
DivideAll(sentences) ==
    Bind(Flatten([i \in 1..Len(sentences) |-> DivideSimpleSentence(sentences[i])]),
         LAMBDA divided :
             IF Len(divided) = Len(sentences) THEN divided ELSE DivideAll(divided))

\* re.sub(r'([:;\-–—,"])\.+$', '.', s), then re.sub(r'[:;\-–—,"]+$', '', s).strip()
TrimRedundant(s) ==
    LET body == RStripSet(s, {"."})
        s1 == IF body # s /\ body # << >> /\ body[Len(body)] = ","
              THEN Append(SubSeq(body, 1, Len(body) - 1), ".") ELSE s
    IN  Strip(RStripSet(s1, {","}))

Tokens(s) == { s[i] : i \in 1..Len(s) }

\* "Asegurar puntuación final"
EnsureTerminal(s) ==
    IF s[Len(s)] \in Terminals THEN s
    ELSE Append(s, IF "¡" \in Tokens(s) THEN "!" ELSE IF "¿" \in Tokens(s) THEN "?" ELSE ".")

\* _separate_exclamations_questions of main_app.py
SeparateExclamationsQuestions(text) ==
    Bind(DivideAll(<< text >>), LAMBDA divided :
    Bind([i \in 1..Len(divided) |->
             IF Strip(divided[i]) = << >> THEN << >> ELSE TrimRedundant(Strip(divided[i]))],
         LAMBDA cleaned :
             Flatten([i \in 1..Len(cleaned) |->
                         IF cleaned[i] = << >> THEN << >>
                         ELSE << EnsureTerminal(cleaned[i]) >>])))

\* _separar_exclamaciones_interrogaciones of prosody_orchestrator.py
SepararExclamacionesInterrogaciones(texto) ==
    Bind(DivideAll(<< texto >>), LAMBDA divided :
        Flatten([i \in 1..Len(divided) |->
                    IF Strip(divided[i]) = << >> THEN << >>
                    ELSE << EnsureTerminal(Strip(divided[i])) >>]))

\* part in '.!?;:'
InEndings(part) ==
    part \in { << >>, << "." >>, << "!" >>, << "?" >>, << ".", "!" >>, << "!", "?" >>,
               << ".", "!", "?" >> }

\* sentence_endings.split(text): the parts between the matches of
\* r'([.!?;:]|\.\.\.)\s+', with the matched mark after each part
RECURSIVE EndingsSplit(_, _, _)
EndingsSplit(t, i, part) ==
    IF i > Len(t) THEN << part >>
    ELSE IF t[i] \in Terminals /\ At(t, i + 1) = " "
    THEN << part, << t[i] >> >> \o EndingsSplit(t, SkipSpaces(t, i + 1), << >>)
    ELSE EndingsSplit(t, i + 1, Append(part, t[i]))

\* "Procesamiento original" of split_into_sentences
RECURSIVE OriginalProcessing(_, _, _)
OriginalProcessing(parts, i, current) ==
    LET flushed(c) == IF Strip(c) = << >> THEN << >>
                      ELSE SeparateExclamationsQuestions(Strip(RestoreDots(c)))
    IN  IF i > Len(parts) THEN flushed(current)
        ELSE IF InEndings(parts[i]) \/ parts[i] = << ".", ".", "." >>
        THEN flushed(current \o parts[i]) \o OriginalProcessing(parts, i + 1, << >>)
        ELSE OriginalProcessing(parts, i + 1, current \o parts[i])

\* re.search(r'[A-Za-zÁÉÍÓÚÜÑáéíóúüñ0-9]', s_clean)
HasLetter(s) == \E i \in 1..Len(s) : IsWord(s[i])

\* sentence.split()
Chunks(s) ==
    LET parts == SplitOn(s, " ")
    IN  Flatten([i \in 1..Len(parts) |-> IF parts[i] = << >> THEN << >> ELSE << parts[i] >>])

\* ' '.join(words)
RECURSIVE JoinChunks(_)
JoinChunks(words) ==
    IF words = << >> THEN << >>
    ELSE IF Len(words) = 1 THEN words[1]
    ELSE words[1] \o << " " >> \o JoinChunks(Tail(words))

\* The commas of the sentence followed by white space and a connector of
\* pattern g, and all its commas.
ConnectorCommas(s, g) ==
    { i \in 1..Len(s) : s[i] = "," /\ At(s, i + 1) = " "
                        /\ At(s, SkipSpaces(s, i + 1)) \in Connectors[g] }

Commas(s) == { i \in 1..Len(s) : s[i] = "," }

\* The first of the positions nearest to len(sentence) // 2.
Distance(s, i) == Abs(CharStart(s, i) - CharLen(s) \div 2)

NearestToCentre(s, positions) ==
    CHOOSE i \in positions :
        \A j \in positions : Distance(s, i) < Distance(s, j) \/ (Distance(s, i) = Distance(s, j) /\ i <= j)

\* sentence[:pos + 1].strip() and sentence[pos + 1:].strip()
PartsAfterComma(s, i) == << Strip(SubSeq(s, 1, i)), Strip(SubSeq(s, i + 1, Len(s))) >>

BigEnough(p) == CharLen(p[1]) > min_part_chars /\ CharLen(p[2]) > min_part_chars

\* _split_long_sentence of main_app.py
RECURSIVE SplitLongSentence(_)
SplitLongSentence(sentence) ==
    LET again(parts) ==
            Bind(parts, LAMBDA p :
                (IF CharLen(p[1]) > max_sentence_chars THEN SplitLongSentence(p[1])
                 ELSE << p[1] >>)
                \o (IF CharLen(p[2]) > max_sentence_chars THEN SplitLongSentence(p[2])
                    ELSE << p[2] >>))
        at(positions) == PartsAfterComma(sentence, NearestToCentre(sentence, positions))
        usable(positions) == positions # {} /\ BigEnough(at(positions))
    IN  IF CharLen(sentence) <= max_sentence_chars THEN << sentence >>
        ELSE IF usable(ConnectorCommas(sentence, 1)) THEN again(at(ConnectorCommas(sentence, 1)))
        ELSE IF usable(ConnectorCommas(sentence, 2)) THEN again(at(ConnectorCommas(sentence, 2)))
        ELSE IF usable(ConnectorCommas(sentence, 3)) THEN again(at(ConnectorCommas(sentence, 3)))
        ELSE IF usable(Commas(sentence)) THEN again(at(Commas(sentence)))
        ELSE Bind(Chunks(sentence), LAMBDA words :
                 IF Len(words) > split_min_words
                 THEN << JoinChunks(SubSeq(words, 1, Len(words) \div 2)),
                         JoinChunks(SubSeq(words, Len(words) \div 2 + 1, Len(words))) >>
                 ELSE << sentence >>)

\* _append_to_previous_with_comma
AppendToPreviousWithComma(prev, addon) ==
    Strip(Strip(RStripSet(prev, Terminals)) \o << ",", " " >> \o addon)

\* current.strip('¡!').strip().strip(',')
InterjectionCore(current) == StripSet(Strip(StripSet(current, {"¡", "!"})), {","})

IsInterjection(current) ==
    Len(InterjectionCore(current)) = 1 /\ InterjectionCore(current)[1] \in Interjections

ReplaceLast(merged, s) == [merged EXCEPT ![Len(merged)] = s]

\* One turn of the loop of _merge_short_sentences: the next i and merged.
MergeShortStep(sentences, i, merged, min_words) ==
    LET current == Strip(sentences[i])
        next_sentence == IF i + 1 <= Len(sentences) THEN Strip(sentences[i + 1]) ELSE << >>
        next_is_question ==
            next_sentence # << >>
            /\ (Head(next_sentence) = "¿" \/ next_sentence[Len(next_sentence)] = "?")
        last == merged[Len(merged)]
    IN  IF Len(Chunks(current)) >= min_words
        THEN [i |-> i + 1, merged |-> Append(merged, current)]
        ELSE IF IsInterjection(current) /\ merged # << >>
        THEN [i |-> i + 1,
              merged |-> ReplaceLast(merged, AppendToPreviousWithComma(last,
                             << "¡" >> \o InterjectionCore(current) \o << "!" >>))]
        ELSE IF next_is_question /\ merged # << >>
        THEN [i |-> i + 1,
              merged |-> ReplaceLast(merged, AppendToPreviousWithComma(last, current))]
        ELSE IF i + 1 <= Len(sentences)
        THEN [i |-> i + 2,
              merged |-> Append(merged, Strip(current \o << " " >> \o next_sentence))]
        ELSE IF merged # << >>
        THEN [i |-> i + 1,
              merged |-> ReplaceLast(merged, AppendToPreviousWithComma(last, current))]
        ELSE [i |-> i + 1, merged |-> Append(merged, current)]

\* _merge_short_sentences of main_app.py
RECURSIVE MergeShortSentences(_, _, _, _)
MergeShortSentences(sentences, i, merged, min_words) ==
    IF i > Len(sentences) THEN merged
    ELSE Bind(MergeShortStep(sentences, i, merged, min_words), LAMBDA st :
             MergeShortSentences(sentences, st.i, st.merged, min_words))

\* _normalize_spanish_question_opening
NormalizeSpanishQuestionOpening(sentences) ==
    [i \in 1..Len(sentences) |->
        LET s == Strip(sentences[i])
        IN  IF s # << >> /\ s[Len(s)] = "?" /\ "¿" \notin Tokens(s) THEN << "¿" >> \o s ELSE s]

\* split_into_sentences of main_app.py
SplitIntoSentences(text) ==
    Bind(WithBreaks(text), LAMBDA marked :
    Bind(IF FRASE_BREAK \in Tokens(marked)
         THEN Bind(SplitOn(marked, FRASE_BREAK), LAMBDA parts :
                  Flatten([i \in 1..Len(parts) |->
                      IF Strip(RestoreDots(parts[i])) = << >> THEN << >>
                      ELSE SeparateExclamationsQuestions(Strip(RestoreDots(parts[i])))]))
         ELSE Bind(EndingsSplit(marked, 1, << >>), LAMBDA parts :
                  OriginalProcessing(parts, 1, << >>)),
         LAMBDA sentences :
    Bind(Flatten([i \in 1..Len(sentences) |->
                     IF HasLetter(Strip(sentences[i])) THEN << Strip(sentences[i]) >>
                     ELSE << >>]),
         LAMBDA cleaned :
    Bind(Flatten([i \in 1..Len(cleaned) |->
                     IF CharLen(cleaned[i]) > max_sentence_chars
                     THEN SplitLongSentence(cleaned[i]) ELSE << cleaned[i] >>]),
         LAMBDA final :
    Bind(MergeShortSentences(final, 1, << >>, short_sentence_words), LAMBDA merged :
        NormalizeSpanishQuestionOpening(merged))))))

\* re.sub(r'\s+', ' ', p_clean)
RECURSIVE CollapseSpaces(_)
CollapseSpaces(t) ==
    IF t = << >> THEN << >>
    ELSE IF Head(t) = " " /\ At(t, 2) = " " THEN CollapseSpaces(Tail(t))
    ELSE << Head(t) >> \o CollapseSpaces(Tail(t))

\* _segmentar_parrafos for a text without blank lines
SegmentarParrafos(texto) ==
    Bind(CollapseSpaces(Strip(texto)), LAMBDA p_clean :
        IF CharLen(Strip(texto)) > min_paragraph_chars
        THEN << IF p_clean[Len(p_clean)] \in Terminals THEN p_clean ELSE Append(p_clean, ".") >>
        ELSE << >>)

\* re.split(r'[.!?]+\s+', texto)
RECURSIVE TerminalsSplit(_, _, _)
TerminalsSplit(t, i, part) ==
    LET j == Len(t) + 1 - Len(LStripSet(SubSeq(t, i, Len(t)), Terminals))
    IN  IF i > Len(t) THEN << part >>
        ELSE IF t[i] \in Terminals /\ At(t, j) = " "
        THEN << part >> \o TerminalsSplit(t, SkipSpaces(t, j), << >>)
        ELSE IF t[i] \in Terminals
        THEN TerminalsSplit(t, j, part \o SubSeq(t, i, j - 1))
        ELSE TerminalsSplit(t, i + 1, Append(part, t[i]))

\* _segmentar_frases of prosody_orchestrator.py
SegmentarFrases(parrafo) ==
    Bind(ProtectAbbreviations(parrafo, 1), LAMBDA t0 :
    Bind(BreakBeforeOpeners(t0, 1), LAMBDA protegido :
    Bind(IF FRASE_BREAK \in Tokens(protegido)
         THEN SplitOn(protegido, FRASE_BREAK)
         ELSE TerminalsSplit(protegido, 1, << >>),
         LAMBDA frases_raw :
             Flatten([i \in 1..Len(frases_raw) |->
                 IF Strip(RestoreDots(frases_raw[i])) = << >> THEN << >>
                 ELSE SepararExclamacionesInterrogaciones(Strip(RestoreDots(frases_raw[i])))]))))

\* The sentences of the orchestrator for a text of one paragraph.
OrchestratorFrases(texto) ==
    Bind(SegmentarParrafos(texto), LAMBDA parrafos :
        Flatten([i \in 1..Len(parrafos) |-> SegmentarFrases(parrafos[i])]))

\* re.split(r'(?<!\.)\.(?!\.)', texto_limpio)
RECURSIVE SingleDotSplit(_, _, _)
SingleDotSplit(t, i, part) ==
    IF i > Len(t) THEN << part >>
    ELSE IF t[i] = "." /\ At(t, i - 1) # "." /\ At(t, i + 1) # "."
    THEN << part >> \o SingleDotSplit(t, i + 1, << >>)
    ELSE SingleDotSplit(t, i + 1, Append(part, t[i]))

\* len(re.findall(r'\b\w+\b', frase))
NumWords(frase) == Cardinality({ i \in 1..Len(frase) : IsWord(frase[i]) })

\* One turn of the loop of _merge_minimum_phrases: merged after it.
MergeMinimumStep(frase, merged, min_words, max_chars) ==
    LET prev == merged[Len(merged)]
        candidate == RStripSet(RStripSet(prev, {" "}), {"."})
                     \o (IF prev[Len(prev)] = "," THEN << " " >> ELSE << ",", " " >>)
                     \o LStripSet(frase, {" "})
    IN  IF NumWords(frase) < min_words /\ merged # << >> /\ CharLen(candidate) <= max_chars
        THEN ReplaceLast(merged, candidate)
        ELSE Append(merged, frase)

\* _merge_minimum_phrases of complex_generator.py
RECURSIVE MergeMinimumPhrases(_, _, _, _, _)
MergeMinimumPhrases(frases, idx, merged, min_words, max_chars) ==
    IF idx > Len(frases) THEN merged
    ELSE Bind(MergeMinimumStep(frases[idx], merged, min_words, max_chars), LAMBDA m :
             MergeMinimumPhrases(frases, idx + 1, m, min_words, max_chars))

\* The sentences of EstructuraComplejaMejorada for the text of the user.
ComplexFrases(texto_usuario) ==
    Bind(SingleDotSplit(Strip(texto_usuario), 1, << >>), LAMBDA partes :
    Bind(Flatten([i \in 1..Len(partes) |->
                     IF Strip(partes[i]) = << >> THEN << >>
                     ELSE << IF Strip(partes[i])[Len(Strip(partes[i]))] \in Terminals
                             THEN Strip(partes[i]) ELSE Append(Strip(partes[i]), ".") >>]),
         LAMBDA frases_usuario :
             MergeMinimumPhrases(frases_usuario, 1, << >>, minimum_phrase_words,
                                 max_merged_chars)))

\* The sentences the texts are made of.
LongWords == << "anticonstitucionalmente", " ", "electroencefalografista", " ",
               "esternocleidomastoideo" >>

SentenceTexts ==
    { << "¿", "Vienes", "?" >>,
      << "Sí", ",", " ", "claro", "." >>,
      << "¡", "Oye", "!" >>,
      << "Dr", ".", " ", "Ruiz", " ", "vino", " ", "hoy", "." >>,
      << "Hola" >>,
      << "Vale", "." >>,
      LongWords \o << ",", " " >> \o LongWords \o << "." >>,
      LongWords \o << ",", " ", "pero", " " >> \o LongWords \o << "." >> }

\* The texts: up to MaxSentences sentences with a space in between.
RECURSIVE TextsOf(_)
TextsOf(n) ==
    IF n = 1 THEN SentenceTexts
    ELSE TextsOf(n - 1)
         \cup { t \o << " " >> \o s : t \in TextsOf(n - 1), s \in SentenceTexts }

SegmentInputs ==
    { [op |-> "segment", text |-> t, done |-> {}, frases |-> << >>,
       sentences |-> << >>, cx_frases |-> << >>] : t \in TextsOf(MaxSentences) }

\* ArquitecturaVocalMaestra: paragraphs, then the sentences of each
OrchestratorSegments ==
    /\ calc.op = "segment" /\ "orchestrator" \notin calc.done
    /\ calc' = [calc EXCEPT !.done = @ \cup {"orchestrator"},
                            !.frases = OrchestratorFrases(calc.text)]
    /\ CalcFrame

\* ProsodyGeneratorGUI.run_generation: sentences = self.split_into_sentences(...)
AppSegments ==
    /\ calc.op = "segment" /\ "app" \notin calc.done
    /\ calc' = [calc EXCEPT !.done = @ \cup {"app"},
                            !.sentences = SplitIntoSentences(calc.text)]
    /\ CalcFrame

\* EstructuraComplejaMejorada.__init__(texto_usuario=...)
ComplexSegments ==
    /\ calc.op = "segment" /\ "complex" \notin calc.done
    /\ calc' = [calc EXCEPT !.done = @ \cup {"complex"},
                            !.cx_frases = ComplexFrases(calc.text)]
    /\ CalcFrame

SegmentNext == OrchestratorSegments \/ AppSegments \/ ComplexSegments

SegmentSpec == InitCalc(SegmentInputs) /\ [][SegmentNext]_vars

\* ------------------------------------------------------- the merge passes
RECURSIVE Repeated(_, _)
Repeated(t, n) == IF n = 0 THEN << >> ELSE t \o Repeated(t, n - 1)

\* The sentences handed to the merge passes: short ones, one of 143
\* characters and one of 159.
MergeSentences ==
    { << "¿", "Vienes", "?" >>,
      << "Sí", ",", " ", "claro", "." >>,
      << "¡", "Oye", "!" >>,
      << "Vale", "." >>,
      LongWords \o << ",", " " >> \o LongWords \o << "." >>,
      Repeated(<< "palabras", " " >>, 17) \o << "claro", "." >> }

MergeInputs ==
    { [op |-> "merge", input |-> l, done |-> {}, merged_app |-> << >>,
       merged_complex |-> << >>] : l \in ListsOver(MergeSentences, MaxListed) }

\* final_sentences = self._merge_short_sentences(final_sentences, min_words=3)
MergeShort ==
    /\ calc.op = "merge" /\ "app" \notin calc.done
    /\ calc' = [calc EXCEPT !.done = @ \cup {"app"},
                            !.merged_app = MergeShortSentences(calc.input, 1, << >>,
                                                               short_sentence_words)]
    /\ CalcFrame

\* self._merge_minimum_phrases(min_words=4, max_merged_chars=160)
MergeMinimum ==
    /\ calc.op = "merge" /\ "complex" \notin calc.done
    /\ calc' = [calc EXCEPT !.done = @ \cup {"complex"},
                            !.merged_complex = MergeMinimumPhrases(calc.input, 1, << >>,
                                                   minimum_phrase_words, max_merged_chars)]
    /\ CalcFrame

MergeNext == MergeShort \/ MergeMinimum

MergeSpec == InitCalc(MergeInputs) /\ [][MergeNext]_vars

\* ------------------------------------------------- the architecture of a plan
\* indicadores_peso: the words of each category, as token sequences.
indicadores_peso ==
    [giros |-> { << "sin", " ", "embargo" >>, << "pero" >>, << "no", " ", "obstante" >>,
                 << "aunque" >>, << "mientras", " ", "que" >> },
     importancia |-> { << "fundamental" >>, << "crucial" >>, << "esencial" >>,
                       << "importante" >>, << "clave" >> },
     conclusiones |-> { << "finalmente" >>, << "por", " ", "lo", " ", "tanto" >>,
                        << "en", " ", "conclusión" >>, << "así", " ", "pues" >> },
     contraste |-> { << "diferente" >>, << "opuesto" >>, << "contrario" >>, << "distinto" >> },
     causalidad |-> { << "porque" >>, << "debido", " ", "a" >>,
                      << "por", " ", "esta", " ", "razón" >>, << "consecuentemente" >> }]

\* The factor of each category in the sum of a paragraph.
PesoCategoriaFlat(categoria) == 1

PesoCategoria(categoria) ==
    [giros |-> 3, importancia |-> 2, conclusiones |-> 2, contraste |-> 2,
     causalidad |-> 1][categoria]

\* parrafo.lower(), for the capital words of the paragraphs
Lower(t) ==
    [i \in 1..Len(t) |->
        CASE t[i] = "Así" -> "así"
          [] t[i] = "Dr" -> "dr"
          [] t[i] = "El" -> "el"
          [] t[i] = "Espero" -> "espero"
          [] t[i] = "Finalmente" -> "finalmente"
          [] t[i] = "Hola" -> "hola"
          [] t[i] = "Nadie" -> "nadie"
          [] t[i] = "Oye" -> "oye"
          [] t[i] = "Para" -> "para"
          [] t[i] = "Pero" -> "pero"
          [] t[i] = "Ruiz" -> "ruiz"
          [] t[i] = "Sin" -> "sin"
          [] t[i] = "Sí" -> "sí"
          [] t[i] = "También" -> "también"
          [] t[i] = "Uno" -> "uno"
          [] t[i] = "Vale" -> "vale"
          [] t[i] = "Vienes" -> "vienes"
          [] OTHER -> t[i]]

\* The words of the paragraphs that hold a word of indicadores_peso inside
\* them, with that word.
Inside ==
    { << "anticonstitucionalmente", "o" >>, << "claro", "o" >>,
      << "dos", "o" >>, << "electroencefalografista", "o" >>,
      << "embargo", "o" >>, << "espero", "o" >>, << "espero", "pero" >>,
      << "esternocleidomastoideo", "o" >>, << "hola", "o" >>,
      << "hoy", "o" >>, << "hoy", "y" >>, << "importante", "o" >>,
      << "oye", "o" >>, << "oye", "y" >>, << "pero", "o" >>,
      << "pronto", "o" >>, << "uno", "o" >>, << "vino", "o" >> }

\* The places of texto_lower where palabra is found.
Matches(texto_lower, palabra) ==
    IF Len(palabra) = 1
    THEN { i \in 1..Len(texto_lower) :
              \/ texto_lower[i] = palabra[1]
              \/ << texto_lower[i], palabra[1] >> \in Inside }
    ELSE { i \in 1..Len(texto_lower) :
              \A k \in 1..Len(palabra) : At(texto_lower, i + k - 1) = palabra[k] }

\* The sum over the categories and their words of
\* texto_lower.count(palabra) * factor: one element for each unit of it.
Indicadores(texto_lower) ==
    Cardinality(UNION { UNION { { << categoria, palabra, i, u >> :
                                     i \in Matches(texto_lower, palabra),
                                     u \in 1..PesoCategoria(categoria) } :
                                palabra \in indicadores_peso[categoria] } :
                        categoria \in DOMAIN indicadores_peso })

\* 0.3 <= i/len(parrafos) <= 0.8
EnPosicionCentral(i, N) == 3 * N <= 10 * i /\ 10 * i <= 8 * N

\* The weight of paragraph i (from 0) of N, in 500ths.
PesoParrafo(parrafo, i, N) ==
    (100 * Indicadores(Lower(parrafo)) + CharLen(parrafo))
    * (IF EnPosicionCentral(i, N) THEN 6 ELSE 5)

\* _calcular_centro_dramatico: pesos_parrafos.index(max(pesos_parrafos))
CalcularCentroDramatico(parrafos) ==
    Bind([k \in 1..Len(parrafos) |-> PesoParrafo(parrafos[k], k - 1, Len(parrafos))],
         LAMBDA pesos_parrafos :
             (CHOOSE k \in 1..Len(parrafos) :
                 /\ \A j \in 1..Len(parrafos) : pesos_parrafos[j] <= pesos_parrafos[k]
                 /\ \A j \in 1..(k - 1) : pesos_parrafos[j] < pesos_parrafos[k]) - 1)

\* The factor 1.0 in the units of the arc: a multiple of 100 and of every
\* denominator of a document of up to six paragraphs.
ArcScale == 100 * 60

Percent(p) == (ArcScale * p) \div 100

\* _generar_arco_narrativo
GenerarArcoNarrativo(N, centro) ==
    [k \in 1..N |->
        LET i == k - 1
            descenso_restante == N - centro - 1
        IN  IF i < centro
            THEN ArcScale + (i * Percent(desarrollo_peak)) \div centro
            ELSE IF i = centro
            THEN ArcScale + Percent(desarrollo_peak)
            ELSE IF descenso_restante > 0
            THEN ((ArcScale + Percent(desarrollo_peak)) * (descenso_restante - (i - centro))
                  + (ArcScale + Percent(cierre_drop)) * (i - centro)) \div descenso_restante
            ELSE ArcScale + Percent(cierre_drop)]

\* _determinar_funcion_parrafo
DeterminarFuncionParrafo(indice, total_p, centro) ==
    IF indice = 0 THEN "apertura"
    ELSE IF indice = centro THEN "pivote"
    ELSE IF indice = total_p - 1 THEN "cierre"
    ELSE IF indice < centro THEN "desarrollo_ascendente"
    ELSE "desarrollo_descendente"

\* _calcular_tono_base_parrafo, in Hz / ArcScale
CalcularTonoBaseParrafo(indice, total_p, funcion, centro) ==
    f0_base *
    [apertura |-> ArcScale,
     desarrollo_ascendente |-> ArcScale + (Percent(5) * indice) \div Max2(centro, 1),
     pivote |-> ArcScale + Percent(desarrollo_peak),
     desarrollo_descendente |->
         ArcScale + Percent(desarrollo_peak)
         - (Percent(desarrollo_peak) * (indice - centro)) \div Max2(total_p - centro, 1),
     cierre |-> ArcScale + Percent(cierre_drop)][funcion]

\* ------------------------------------------------- the rows of the plan
\* math.sin(2 * math.pi * j / M), in millionths
SinTurn(j, M) ==
    CASE j = 0 /\ M = 1 -> 0
      [] j = 0 /\ M = 2 -> 0
      [] j = 1 /\ M = 2 -> 0
      [] j = 0 /\ M = 3 -> 0
      [] j = 1 /\ M = 3 -> 866025
      [] j = 2 /\ M = 3 -> -866025
      [] j = 0 /\ M = 4 -> 0
      [] j = 1 /\ M = 4 -> 1000000
      [] j = 2 /\ M = 4 -> 0
      [] j = 3 /\ M = 4 -> -1000000
      [] j = 0 /\ M = 5 -> 0
      [] j = 1 /\ M = 5 -> 951057
      [] j = 2 /\ M = 5 -> 587785
      [] j = 3 /\ M = 5 -> -587785
      [] j = 4 /\ M = 5 -> -951057
      [] j = 0 /\ M = 6 -> 0
      [] j = 1 /\ M = 6 -> 866025
      [] j = 2 /\ M = 6 -> 866025
      [] j = 3 /\ M = 6 -> 0
      [] j = 4 /\ M = 6 -> -866025
      [] j = 5 /\ M = 6 -> -866025

\* config_curva['descenso_exp'] ** (k / 4), in millionths
DescensoExp(k) ==
    CASE k = -3 -> 1039220
      [] k = -2 -> 1025978
      [] k = -1 -> 1012906
      [] k = 0 -> 1000000
      [] k = 1 -> 987259
      [] k = 2 -> 974679
      [] k = 3 -> 962261

\* velocidad_natural in words per minute; speeds are in VelScale-ths of it.
VelScale == 100 * 100

Natural == velocidad_natural * VelScale

\* palabra in texto.lower()
Holds(texto, palabra) == Matches(Lower(texto), palabra) # {}

HoldsAny(texto, palabras) == \E palabra \in palabras : Holds(texto, palabra)

\* _analizar_tipo_frase; the texts hold no quotes
AnalizarTipoFrase(frase) ==
    LET frase_clean == Strip(frase)
    IN  IF "?" \in Tokens(frase_clean) \/ At(frase_clean, 1) = "¿" THEN "pregunta"
        ELSE IF "!" \in Tokens(frase_clean) \/ At(frase_clean, 1) = "¡" THEN "exclamacion"
        ELSE IF CharLen(frase_clean) > 150
                /\ HoldsAny(frase_clean, { << "que" >>, << "donde" >> })
        THEN "subordinada_larga"
        ELSE IF Cardinality(Commas(frase_clean)) >= 2
                /\ HoldsAny(frase_clean, { << "y" >>, << "o" >>, << "además" >> })
        THEN "enumeracion"
        ELSE "declarativa"

\* _detectar_tipo_transicion
DetectarTipoTransicion(frase_actual, frase_siguiente) ==
    IF HoldsAny(frase_siguiente, { << "sin", " ", "embargo" >>, << "pero" >>,
                                   << "no", " ", "obstante" >>, << "aunque" >> })
    THEN "contraste"
    ELSE IF HoldsAny(frase_siguiente, { << "además" >>, << "también" >>, << "asimismo" >>,
                                        << "igualmente" >> })
    THEN "continuidad"
    ELSE IF HoldsAny(frase_actual, { << "por", " ", "tanto" >>, << "así", " ", "pues" >>,
                                     << "en", " ", "resumen" >> })
    THEN "conclusion_parcial"
    ELSE "normal"

\* min(max(pausa_base, 0.2), 3.0), in milliseconds
LimitarDoblando(pausa_base) == 2 * pausa_base

Limitar(pausa_base) == Min2(Max2(pausa_base, pausa_min), pausa_max)

\* _calcular_pausa_transicion, in milliseconds
CalcularPausaTransicion(frase, frase_id, total_frases, todas_frases, es_ultimo_parrafo) ==
    LET last == At(Strip(frase), Len(Strip(frase)))
        pausa_base == IF last = "." THEN 800
                      ELSE IF last = "!" THEN 600
                      ELSE IF last = "?" THEN 500
                      ELSE IF last = "," THEN 300
                      ELSE 500
        transicion == DetectarTipoTransicion(frase, todas_frases[frase_id + 2])
    IN  Limitar(IF frase_id = total_frases - 1
                THEN (IF es_ultimo_parrafo THEN (pausa_base * 20) \div 10
                      ELSE (pausa_base * 18) \div 10)
                ELSE IF transicion = "contraste" THEN (pausa_base * 13) \div 10
                ELSE IF transicion = "continuidad" THEN (pausa_base * 8) \div 10
                ELSE IF transicion = "conclusion_parcial" THEN (pausa_base * 11) \div 10
                ELSE pausa_base)

\* configuracion['tipos_frase'][tipo]['contorno']
ContornoPregunta == "(0%,0%) (60%,0%) (100%,+20%)"

ContornoExclamacion == "(0%,+15%) (30%,+10%) (100%,+5%)"

\* The curve of the position of sentence frase_id among total_frases.
CurvaDePosicion(frase_id, total_frases) ==
    IF 4 * frase_id < Max2(total_frases - 1, 1) THEN "ataque"
    ELSE IF 4 * frase_id < 3 * Max2(total_frases - 1, 1) THEN "meseta_modulada"
    ELSE "cadencia"

\* The curve of a sentence once the configuration of its type is applied.
CurvaPorPosicion(curva, tipo_frase) == curva

CurvaDeTipo(curva, tipo_frase) ==
    IF tipo_frase = "pregunta" THEN ContornoPregunta
    ELSE IF tipo_frase = "exclamacion" THEN ContornoExclamacion
    ELSE curva

\* tono * factor / 1000000 in steps that stay within 32 bits
PorMillon(tono, factor) ==
    ((tono \div 1000) * factor) \div 1000 + ((tono % 1000) * factor) \div 1000000

\* tono_frase of _procesar_frase_individual
TonoFrase(curva, tono_base_p, frase_id, total_frases) ==
    IF curva = "ataque" THEN (tono_base_p * 108) \div 100
    ELSE IF curva = "meseta_modulada"
    THEN PorMillon(tono_base_p, 1000000 + (3 * SinTurn(frase_id, total_frases)) \div 100)
    ELSE PorMillon(tono_base_p, DescensoExp(4 * frase_id - 3 * total_frases))

\* velocidad of _procesar_frase_individual, in VelScale-ths
Velocidad(curva, tipo_frase) ==
    LET de_curva == IF curva = "ataque" THEN 95
                    ELSE IF curva = "meseta_modulada" THEN 100 ELSE 88
        de_tipo == IF tipo_frase = "pregunta" THEN 105
                   ELSE IF tipo_frase = "exclamacion" THEN 110
                   ELSE IF tipo_frase = "subordinada_larga" THEN 92
                   ELSE 100
    IN  velocidad_natural * de_curva * de_tipo

\* _procesar_frase_individual: the row of sentence frase_id of a paragraph
ProcesarFraseIndividual(frase, parrafo_id, frase_id, total_frases, tono_base_p, todas_frases, es_ultimo_parrafo) ==
    LET curva == CurvaDePosicion(frase_id, total_frases)
        tono_frase == TonoFrase(curva, tono_base_p, frase_id, total_frases)
        tipo_frase == AnalizarTipoFrase(frase)
    IN  [parrafo_id |-> parrafo_id,
         frase_id |-> frase_id,
         texto |-> frase,
         tono_base |-> tono_frase,
         velocidad |-> Velocidad(curva, tipo_frase),
         curva |-> CurvaDeTipo(curva, tipo_frase),
         tono_inicial |-> IF tipo_frase = "exclamacion" THEN (tono_frase * 115) \div 100
                          ELSE None,
         tono_final |-> IF tipo_frase = "pregunta" THEN (tono_frase * 120) \div 100
                        ELSE None,
         intensidad |-> IF tipo_frase = "exclamacion" THEN 130 ELSE 100,
         pausa_final |-> CalcularPausaTransicion(frase, frase_id, total_frases, todas_frases,
                                                 es_ultimo_parrafo)]

\* The loop of _aplicar_suavizado_transiciones from row i (from 1) on.
RECURSIVE Suavizado(_, _)
Suavizado(control_matrix, i) ==
    IF i > Len(control_matrix) THEN control_matrix
    ELSE Bind(control_matrix, LAMBDA cm :
             LET actual == cm[i].tono_base
                 anterior == cm[i - 1].tono_base
             IN  IF 10 * Abs(actual - anterior) > f0_base * ArcScale
                 THEN Suavizado([cm EXCEPT ![i].tono_base =
                                    anterior + ((actual - anterior) * 95) \div 100], i + 1)
                 ELSE Suavizado(cm, i + 1))

\* _aplicar_suavizado_transiciones
AplicarSuavizadoTransiciones(control_matrix) ==
    IF Len(control_matrix) < 2 THEN control_matrix ELSE Suavizado(control_matrix, 2)

\* The limits of _verificar_coherencia_tonal.
TonoMin == (f0_base * ArcScale * 75) \div 100

TonoMax == (f0_base * ArcScale * 135) \div 100

VelMin == (Natural * 75) \div 100

VelMax == (Natural * 125) \div 100

\* _verificar_coherencia_tonal
VerificarCoherenciaTonal(control_matrix) ==
    [i \in 1..Len(control_matrix) |->
        [control_matrix[i] EXCEPT
            !.tono_base = Min2(Max2(@, TonoMin), TonoMax),
            !.velocidad = Min2(Max2(@, VelMin), VelMax)]]

\* The rows of the paragraphs, one after the other, before post-processing.
ControlMatrix(parrafos, centro_gravitacional) ==
    LET N == Len(parrafos)
    IN  Flatten([k \in 1..N |->
            Bind(SegmentarFrases(parrafos[k]), LAMBDA frases :
                Bind(CalcularTonoBaseParrafo(
                         k - 1, N, DeterminarFuncionParrafo(k - 1, N, centro_gravitacional),
                         centro_gravitacional),
                     LAMBDA tono_base_p :
                         [j \in 1..Len(frases) |->
                             ProcesarFraseIndividual(frases[j], k - 1, j - 1, Len(frases),
                                                     tono_base_p, frases, k = N)]))])

\* The paragraphs of the documents whose rows are looked at: questions,
\* exclamations, an enumeration, and every kind of transition.
ParrafosConFrases ==
    { << "¿", "Vienes", "?", " ", "Sí", ",", " ", "claro", "." >>,
      << "¡", "Oye", "!", " ", "Nadie", " ", "vino", " ", "hoy", "." >>,
      << "El", " ", "tren", " ", "llega", " ", "tarde", ".", " ",
         "Pero", " ", "nadie", " ", "vino", ".", " ", "También", " ", "llueve", ".", " ",
         "Así", " ", "pues", ",", " ", "nada", ".", " ", "Vale", "." >>,
      << "Uno", ",", " ", "dos", ",", " ", "y", " ", "tres", "." >>,
      << "Para", " ", "siempre", "." >> }

PlanOf(parrafos) ==
    [op |-> "plan", parrafos |-> parrafos, done |-> FALSE, centro |-> 0, arco |-> << >>,
     funciones |-> << >>, tonos |-> << >>, control_matrix |-> << >>]

MatrixInputs == { PlanOf(l) : l \in ListsOver(ParrafosConFrases, MaxParagraphs) \ { << >> } }

\* The paragraphs the documents are made of: each is longer than ten
\* characters and ends in a full stop, as _segmentar_parrafos leaves them.
LongSentence == LongWords \o << ",", " " >> \o LongWords \o << "." >>

Parrafos ==
    { << "El", " ", "tren", " ", "llega", " ", "tarde", "." >>,
      << "Sin", " ", "embargo", ",", " ", "nadie", " ", "vino", "." >>,
      << "Finalmente", ",", " ", "es", " ", "importante", "." >>,
      << "Espero", " ", "que", " ", "vengas", " ", "pronto", "." >>,
      LongSentence,
      LongSentence \o << " " >> \o LongSentence \o << " " >> \o LongSentence }

PlanInputs == { PlanOf(l) : l \in ListsOver(Parrafos, MaxParagraphs) \ { << >> } }

\* orquestar_lectura_completa from the paragraphs on: the centre, the arc,
\* the function and base tone of each paragraph, the rows of its sentences
\* and the two passes over the rows
OrquestarLecturaCompleta ==
    /\ calc.op = "plan" /\ ~calc.done
    /\ \E centro_gravitacional \in { CalcularCentroDramatico(calc.parrafos) } :
       \E control_matrix \in { ControlMatrix(calc.parrafos, centro_gravitacional) } :
       \E suavizada \in { AplicarSuavizadoTransiciones(control_matrix) } :
           LET N == Len(calc.parrafos)
               funcion(i) == DeterminarFuncionParrafo(i, N, centro_gravitacional)
           IN  calc' = [calc EXCEPT
                   !.done = TRUE,
                   !.centro = centro_gravitacional,
                   !.arco = GenerarArcoNarrativo(N, centro_gravitacional),
                   !.funciones = [k \in 1..N |-> funcion(k - 1)],
                   !.tonos = [k \in 1..N |->
                                 CalcularTonoBaseParrafo(k - 1, N, funcion(k - 1),
                                                         centro_gravitacional)],
                   !.control_matrix = VerificarCoherenciaTonal(suavizada)]
    /\ CalcFrame

PlanNext == OrquestarLecturaCompleta

PlanSpec == InitCalc(PlanInputs) /\ [][PlanNext]_vars

MatrixSpec == InitCalc(MatrixInputs) /\ [][PlanNext]_vars

\* ------------------------------------------------- the validation of a clip
\* quality_metrics and sample_rate of EstructuraComplejaMejorada; the energy
\* threshold in millionths, the ratios in percent.
sample_rate == 24000

min_duration_ratio == 70

max_duration_ratio == 150

min_energy_threshold == 1000

max_silence_ratio == 25

pitch_stability_threshold == 5

problematic_finals == {"s", "d", "r", "n", "l"}

\* [aeiouáéíóú] and [aeiou] of sinalefa_patterns
AccentedVowels == {"a", "e", "i", "o", "u", "á", "é", "í", "ó", "ú"}

PlainVowels == {"a", "e", "i", "o", "u"}

\* The first, the last but one and the last letter of a lower-case word.
Letters(word) ==
    CASE word = "el" -> << "e", "e", "l" >> []
         word = "tren" -> << "t", "e", "n" >> []
         word = "llega" -> << "l", "g", "a" >> []
         word = "muy" -> << "m", "u", "y" >> []
         word = "tarde" -> << "t", "d", "e" >> []
         word = "a" -> << "a", "", "a" >> []
         word = "la" -> << "l", "l", "a" >> []
         word = "estación" -> << "e", "ó", "n" >> []
         word = "principal" -> << "p", "a", "l" >> []
         word = "nadie" -> << "n", "i", "e" >> []
         word = "vino" -> << "v", "n", "o" >> []
         word = "ver" -> << "v", "e", "r" >> []
         word = "iba" -> << "i", "b", "a" >> []
         word = "una" -> << "u", "n", "a" >> []
         word = "isla" -> << "i", "l", "a" >> []
         word = "y" -> << "y", "", "y" >> []
         word = "era" -> << "e", "r", "a" >> []
         word = "alta" -> << "a", "t", "a" >> []
         word = "en" -> << "e", "e", "n" >> []
         word = "abril" -> << "a", "i", "l" >> []
         word = "vale" -> << "v", "l", "e" >> []
         OTHER -> << "", "", "" >>

\* sinalefa_patterns: the letters a match takes at the end of a word, the
\* last of them a vowel of the set before, and the set of the vowel it takes
\* at the start of the next word.
sinalefa_patterns ==
    << [before |-> AccentedVowels, last |-> "", after |-> AccentedVowels],
       [before |-> PlainVowels, last |-> "n", after |-> PlainVowels],
       [before |-> PlainVowels, last |-> "r", after |-> PlainVowels] >>

\* Whether the pattern matches across the white space after word i of texto.
MatchesAt(texto, patron, i) ==
    /\ i + 2 <= Len(texto)
    /\ IsWord(texto[i]) /\ texto[i + 1] = " " /\ IsWord(texto[i + 2])
    /\ Letters(texto[i + 2])[1] \in patron.after
    /\ IF patron.last = "" THEN Letters(texto[i])[3] \in patron.before
       ELSE Letters(texto[i])[3] = patron.last /\ Letters(texto[i])[2] \in patron.before

\* len(list(re.finditer(pattern, text))) from token i on: the matches do
\* not overlap, so a word whose first letter the match before took gives
\* its end to a match only if the pattern leaves that first letter alone.
RECURSIVE Finditer(_, _, _, _)
Finditer(texto, patron, i, taken) ==
    IF i > Len(texto) THEN 0
    ELSE IF /\ MatchesAt(texto, patron, i)
            /\ taken => Len(texto[i]) > (IF patron.last = "" THEN 1 ELSE 2)
    THEN 1 + Finditer(texto, patron, i + 2, TRUE)
    ELSE Finditer(texto, patron, i + 1, FALSE)

\* detect_spanish_features: the number of sinalefas, the number of words
\* with a problematic final, and whether the complexity score,
\* min(1.0, sinalefas * 0.1 + finals * 0.02), is above 0.3.  In floating
\* point the sums 0.1 + 0.2, 0.2 + 0.1 and 3 * 0.1 are above 0.3.
DetectSpanishFeatures(text) ==
    LET lower == Lower(text)
        sinalefas == Finditer(lower, sinalefa_patterns[1], 1, FALSE)
                     + Finditer(lower, sinalefa_patterns[2], 1, FALSE)
                     + Finditer(lower, sinalefa_patterns[3], 1, FALSE)
        finals == Cardinality({ i \in 1..Len(lower) :
                      IsWord(lower[i]) /\ Letters(lower[i])[3] \in problematic_finals })
        score == Min2(100, 10 * sinalefas + 2 * finals)
    IN  [sinalefas |-> sinalefas,
         problematic_finals |-> finals,
         complex |-> score > 30 \/ (score = 30 /\ sinalefas >= 1)]

\* any(text.lower().strip().endswith(c) for c in self.problematic_finals)
HasProblematicFinals(text) ==
    LET stripped == Strip(Lower(text))
        last == At(stripped, Len(stripped))
    IN  IsWord(last) /\ Letters(last)[3] \in problematic_finals

\* A clip is what validation measures of it: its number of samples, its rms
\* in millionths, the mean energy of its first and last 50 ms in percent of
\* its mean energy, the voiced frames of its last 200 ms, its silent frames
\* out of frames, its voiced frames and the pitch jumps above 50 Hz among
\* them, its spectral drops out of centroid_diffs, and the analyses of
\* librosa that raise on it.
ClipFrames == 20

Clip(samples, rms, inicio, final, final_f0_valid, silent_frames, f0_valid, extreme_jumps, extreme_drops, raises) ==
    [samples |-> samples, rms |-> rms, inicio_energy |-> inicio, final_energy |-> final,
     final_f0_valid |-> final_f0_valid, silent_frames |-> silent_frames, f0_valid |-> f0_valid,
     extreme_jumps |-> extreme_jumps, extreme_drops |-> extreme_drops, raises |-> raises]

\* duration < len(text) / 15 * ratio, widened by the factor in tenths; both
\* sides in thousandths of a sample
TooShort(samples, chars, tenths) ==
    samples * 15 < chars * min_duration_ratio * tenths * (sample_rate \div 1000)

\* duration > len(text) / 8 * ratio, widened by the factor in tenths
TooLong(samples, chars, tenths) ==
    samples * 8 > chars * max_duration_ratio * tenths * (sample_rate \div 1000)

Rejected(reason) == [is_valid |-> FALSE, reason |-> reason]

\* validate_audio_anti_truncation with the energy looked at before the
\* duration
ValidateEnergyFirst(audio, text) ==
    IF audio.samples = 0 THEN Rejected("Audio vacío")
    ELSE IF audio.rms < min_energy_threshold THEN Rejected("Energía insuficiente")
    ELSE IF TooShort(audio.samples, CharLen(text), 10) THEN Rejected("Duración insuficiente")
    ELSE [is_valid |-> TRUE, reason |-> "Validación exitosa"]

\* validate_audio_anti_truncation
ValidateAudioAntiTruncation(audio, text) ==
    LET spanish_features == DetectSpanishFeatures(text)
        window_samples == (5 * sample_rate) \div 100
    IN  IF audio.samples = 0 THEN Rejected("Audio vacío")
        ELSE IF TooShort(audio.samples, CharLen(text),
                         IF spanish_features.complex THEN 9 ELSE 10)
        THEN Rejected("Duración insuficiente")
        ELSE IF TooLong(audio.samples, CharLen(text),
                        IF spanish_features.complex THEN 12 ELSE 10)
        THEN Rejected("Duración excesiva")
        ELSE IF audio.rms < min_energy_threshold THEN Rejected("Energía insuficiente")
        ELSE IF /\ audio.samples > window_samples * 2
                /\ audio.inicio_energy > 400 \/ audio.final_energy > 400
        THEN Rejected("Posible audio cortado en extremos")
        ELSE IF /\ HasProblematicFinals(text)
                /\ "final_yin" \notin audio.raises
                /\ audio.final_f0_valid < 3
        THEN Rejected("Posible consonante final cortada")
        ELSE IF audio.silent_frames * 100 > max_silence_ratio * ClipFrames
        THEN Rejected("Exceso de silencio interno")
        ELSE IF /\ "yin" \notin audio.raises
                /\ audio.f0_valid > 10
                /\ audio.extreme_jumps * 100 > pitch_stability_threshold * audio.f0_valid
        THEN Rejected("Pitch inestable")
        ELSE IF /\ spanish_features.sinalefas > 0
                /\ "stft" \notin audio.raises
                /\ audio.extreme_drops * 10 > ClipFrames
        THEN Rejected("Posibles sinalefas cortadas")
        ELSE [is_valid |-> TRUE, reason |-> "Validación exitosa"]

\* The texts validated: the declarative of 9 words and 48 characters, one
\* that ends in a problematic final, one with six sinalefas, a short one.
Declarativa48 ==
    << "El", " ", "tren", " ", "llega", " ", "muy", " ", "tarde", " ", "a", " ", "la", " ",
       "estación", " ", "principal", "." >>

ValidatedTexts ==
    { Declarativa48,
      << "Nadie", " ", "vino", " ", "a", " ", "ver", " ", "el", " ", "tren" >>,
      << "Nadie", " ", "iba", " ", "a", " ", "una", " ", "isla", " ", "y", " ", "era", " ",
         "alta", " ", "en", " ", "abril", "." >>,
      << "Vale", "." >> }

\* The clips validated: empty, of 0.05, 0.5, 3 and 20 seconds.
Clips ==
    { Clip(samples, rms, inicio, final, final_f0_valid, silent_frames, f0_valid[1], f0_valid[2],
           extreme_drops, raises) :
        samples \in {0, 1200, 12000, 72000, 480000},
        rms \in {500, 50000},
        inicio \in {100},
        final \in {100, 500},
        final_f0_valid \in {0, 5},
        silent_frames \in {2, 8},
        f0_valid \in { << 5, 2 >>, << 20, 0 >>, << 20, 2 >> },
        extreme_drops \in {0, 4},
        raises \in { {}, {"final_yin"}, {"yin"}, {"stft"} } }

ValidateInputs ==
    { [op |-> "validate", audio |-> audio, text |-> text, done |-> FALSE,
       is_valid |-> FALSE, reason |-> ""] :
        audio \in Clips, text \in ValidatedTexts }

ValidateAudio ==
    /\ calc.op = "validate" /\ ~calc.done
    /\ \E result \in { ValidateAudioAntiTruncation(calc.audio, calc.text) } :
           calc' = [calc EXCEPT !.done = TRUE, !.is_valid = result.is_valid,
                                !.reason = result.reason]
    /\ UNCHANGED << document, is_processing, generate_button, resume_state, resume_file,
                    files, last_dir, w >>

ValidateNext == ValidateAudio

ValidateSpec == InitCalc(ValidateInputs) /\ [][ValidateNext]_vars

\* ------------------------------------------------- the analysis of a segment
\* ProsodyAnalyzer() as process_full_mode builds it: windows of 250 ms at
\* its default rate of 44100 Hz.
analyzer_sample_rate == 44100

window_size_ms == 250

window_samples == (analyzer_sample_rate * window_size_ms) \div 1000

\* len(self._split_into_windows(audio)) for an audio of that many samples
SplitIntoWindows(samples) ==
    IF samples <= window_samples THEN 0
    ELSE (samples - window_samples - 1) \div (window_samples \div 2) + 1

\* _classify_position(w_idx / max(len(windows) - 1, 1))
ClassifyPosition(w_idx, num_windows) ==
    LET denominator == Max2(num_windows - 1, 1)
    IN  IF 100 * w_idx < 15 * denominator THEN "attack"
        ELSE IF 100 * w_idx < 70 * denominator THEN "sustain"
        ELSE IF 100 * w_idx < 85 * denominator THEN "decay"
        ELSE "release"

RECURSIVE SumOf(_)
SumOf(values) == IF values = << >> THEN 0 ELSE Head(values) + SumOf(Tail(values))

\* np.mean(values); of no value it is nan, which no comparison holds for,
\* as none holds in the detector for the 0 that stands for it here.
Mean(values) == IF values = << >> THEN 0 ELSE SumOf(values) \div Len(values)

\* The windows of the pitches that are above 0, in order.
RECURSIVE AllPitches(_)
AllPitches(pitch_means) ==
    IF pitch_means = << >> THEN << >>
    ELSE (IF Head(pitch_means) > 0 THEN << Head(pitch_means) >> ELSE << >>)
         \o AllPitches(Tail(pitch_means))

\* The entry of analyze_complete_audio for one segment: the audio is its
\* number of samples and the pitch_mean of each of its windows.
AnalyzeSegment(audio, text) ==
    LET num_windows == SplitIntoWindows(audio.samples)
        all_pitches == AllPitches(audio.pitch_means)
        n == Len(all_pitches)
        k == Min2(Max2(2, n \div 5), n)
    IN  [ending |-> text.ending, palabra |-> text.palabra,
         release |-> \E w_idx \in 0..(num_windows - 1) :
                         ClassifyPosition(w_idx, num_windows) = "release",
         pitched |-> n > 0,
         pitch_start |-> Mean(SubSeq(all_pitches, 1, k)),
         pitch_middle |-> Mean(SubSeq(all_pitches, n \div 3 + 1, (2 * n) \div 3)),
         pitch_end |-> Mean(SubSeq(all_pitches, n - k + 1, n))]

\* The pitch_mean of a window: none, or one of two pitches.
WindowPitches == {0, 100, 200}

\* The segments analysed: the 0.1 s of silence that stands for a missing
\* file, and clips of 15000, 20000 and 30000 samples, of one, two and four
\* windows.
SegmentSamples == {2400, 15000, 20000, 30000}

AnalyzeInputs ==
    UNION { { [op |-> "detect", pc |-> "audio",
               audio |-> [samples |-> samples, pitch_means |-> pitch_means],
               text |-> [ending |-> e, palabra |-> p],
               analysis_map |-> << >>, problems |-> << >>] :
                pitch_means \in [1..SplitIntoWindows(samples) -> WindowPitches],
                e \in Endings, p \in Palabras } :
            samples \in SegmentSamples }

\* analysis = analyzer.analyze_complete_audio(audio_segments, texts)
AnalyzeCompleteAudio ==
    /\ calc.op = "detect" /\ calc.pc = "audio"
    /\ calc' = [calc EXCEPT !.pc = "analysis",
                            !.analysis_map = << AnalyzeSegment(calc.audio, calc.text) >>]
    /\ CalcFrame

AnalyzeNext == AnalyzeCompleteAudio \/ IdentifyProblems

AnalyzeSpec == InitCalc(AnalyzeInputs) /\ [][AnalyzeNext]_vars

\* ------------------------------------------------- the delay of the retry loop
\* time.sleep(0.5) at the foot of the while True loop, in milliseconds
retry_delay_ms == 500

\* The milliseconds the loop sleeps between an engine call with outcome o
\* and the next engine call: the empty waveform leaves the iteration with
\* `continue`, the invalid waveform and the generic exception reach the
\* foot of the loop.
SleptAfter(o) == IF o.kind = "empty" THEN 0 ELSE retry_delay_ms

\* The retry loop of one sentence on its own, its first engine call issued.
DelayInputs ==
    { [op |-> "retry",
       r |-> EnterGSPV([IdleWorker EXCEPT !.params = DefaultParams], txt, "primary"),
       outcome |-> "none", slept |-> 0] : txt \in {ShortText, CommaText} }

\* One iteration of the while True loop, up to the next engine call or the
\* end of the loop.
RetryIteration ==
    /\ calc.op = "retry" /\ calc.r.pc = "infer"
    /\ \E o \in EngineOutcomes :
         \E after \in { AfterInfer(calc.r, o) } :
            calc' = [calc EXCEPT !.r = after, !.outcome = o.kind,
                                 !.slept = IF after.pc = "infer" THEN SleptAfter(o) ELSE 0]
    /\ CalcFrame

DelayNext == RetryIteration

DelaySpec == InitCalc(DelayInputs) /\ [][DelayNext]_vars

\* ------------------------------------------------- the parameters of a fix
\* The types of problem the detector reports, and one it does not.
ProblemTypes ==
    { "missing_paragraph_cadence", "missing_question_rise", "inverted_prosodic_arc",
      "missing_micro_ascenso", "insufficient_emphasis", "missing_definitive_ending",
      "speed_variation" }

\* The limits of _adjust_generation_params; sway, cfg and speed in hundredths.
nfe_step_min == 16

nfe_step_max == 32

sway_min == -40

sway_max == 40

cfg_min == 100

cfg_max == 220

speed_min == 85

speed_max == 115

GenerationParams(nfe_step, sway, cfg, speed) ==
    [nfe_step |-> nfe_step, sway_sampling_coef |-> sway, cfg_strength |-> cfg, speed |-> speed]

\* max(low, min(value, high))
Clamp(value, low, high) == Max2(low, Min2(value, high))

\* The parameters with no limit applied to them
Unclamped(base_params) == base_params

\* "LIMITAR valores extremos"
Clamped(base_params) ==
    GenerationParams(Clamp(base_params.nfe_step, nfe_step_min, nfe_step_max),
                     Clamp(base_params.sway_sampling_coef, sway_min, sway_max),
                     Clamp(base_params.cfg_strength, cfg_min, cfg_max),
                     Clamp(base_params.speed, speed_min, speed_max))

\* _adjust_generation_params(problem, attempt)
AdjustGenerationParams(type, attempt) ==
    Clamped(
        CASE type = "missing_paragraph_cadence" ->
                GenerationParams(48 + attempt * 3, -70 - attempt * 8, 250 + attempt * 15,
                                 88 - attempt * 3)
          [] type = "missing_question_rise" ->
                GenerationParams(44 + attempt * 2, -30 - attempt * 6, 280 + attempt * 20,
                                 105 + attempt * 2)
          [] type = "inverted_prosodic_arc" ->
                GenerationParams(36 + attempt * 5, -80 + attempt * 3, 230 + attempt * 10, 100)
          [] type = "missing_micro_ascenso" ->
                GenerationParams(44 + attempt * 2, -35 - attempt * 4, 240 + attempt * 10,
                                 102 + attempt)
          [] type = "insufficient_emphasis" ->
                GenerationParams(46 + attempt * 3, -45 - attempt * 6, 270 + attempt * 15,
                                 95 - attempt * 2)
          [] type = "missing_definitive_ending" ->
                GenerationParams(52 + attempt * 4, -90 - attempt * 10, 300 + attempt * 20,
                                 82 - attempt * 4)
          [] OTHER -> GenerationParams(40, -50, 220, 100))

\* _validate_generation_params
ValidateGenerationParams(params) ==
    /\ params.nfe_step >= 4 /\ params.nfe_step <= 100
    /\ params.sway_sampling_coef >= -200 /\ params.sway_sampling_coef <= 200
    /\ params.cfg_strength >= 50 /\ params.cfg_strength <= 1000
    /\ params.speed >= 10 /\ params.speed <= 300

\* The parameters an attempt hands to _generate_with_params.
ParamsOfAttempt(type, attempt) ==
    IF ValidateGenerationParams(AdjustGenerationParams(type, attempt))
    THEN AdjustGenerationParams(type, attempt)
    ELSE GenerationParams(32, -50, 200, 100)

\* The attempt loop of one problem for a regenerator built with max_attempts:
\* the parameters of the attempts made so far.
MaxAttemptsInputs == 1..(regen_max_attempts + 1)

AdjustInputs ==
    { [op |-> "adjust", type |-> type, max_attempts |-> max_attempts, attempt |-> 0,
       generation_params |-> << >>] :
        type \in ProblemTypes, max_attempts \in MaxAttemptsInputs }

\* One turn of "for attempt in range(max_safe_attempts)" up to the call of
\* _generate_with_params.
AdjustAttempt ==
    /\ calc.op = "adjust"
    /\ calc.attempt < Min2(calc.max_attempts, regen_max_attempts)
    /\ calc' = [calc EXCEPT !.attempt = @ + 1,
                            !.generation_params =
                                Append(@, ParamsOfAttempt(calc.type, calc.attempt))]
    /\ CalcFrame

AdjustNext == AdjustAttempt

AdjustSpec == InitCalc(AdjustInputs) /\ [][AdjustNext]_vars

\* --------------------------------------- the table and the sentences it serves
\* " ".join([s['text'] for s in sentences])
RECURSIVE JoinSpace(_)
JoinSpace(sentences) ==
    IF sentences = << >> THEN << >>
    ELSE IF Len(sentences) = 1 THEN sentences[1]
    ELSE sentences[1] \o << " " >> \o JoinSpace(Tail(sentences))

\* The hints of a sentence that no row of the table serves: the legacy system
\* keeps the text of the sentence (_add_prosody_hint returns its first
\* strategy, the text itself).
LegacyHints(text) == [maestro_source |-> FALSE, row |-> -1, text |-> text]

\* obtener_parametros_maestros: the row at phrase_idx and its texto, when
\* the table has one.
ObtenerParametrosMaestros(control_matrix, phrase_idx, text) ==
    IF control_matrix = << >> THEN LegacyHints(text)
    ELSE IF 0 <= phrase_idx /\ phrase_idx < Len(control_matrix)
    THEN [maestro_source |-> TRUE, row |-> phrase_idx,
          text |-> control_matrix[phrase_idx + 1]]
    ELSE LegacyHints(text)

\* The texts of the documents the table is built for.
TableInputs ==
    { [op |-> "table", pc |-> "start", text |-> t, sentences |-> << >>,
       full_text |-> << >>, control_matrix |-> << >>, idx |-> 0, applied |-> << >>] :
      t \in TextsOf(MaxSentences) }

\* run_generation segments the text; process_full_mode joins the sentences
\* into the texto_usuario of the generator.
JoinSentences ==
    /\ calc.op = "table" /\ calc.pc = "start"
    /\ \E sentences \in { SplitIntoSentences(calc.text) } :
          calc' = [calc EXCEPT !.pc = "init", !.sentences = sentences,
                               !.full_text = JoinSpace(sentences)]
    /\ CalcFrame

\* inicializar_orquestador_maestro(texto_usuario): the table, of which the
\* texto of every row is kept.
InicializarOrquestadorMaestro ==
    /\ calc.op = "table" /\ calc.pc = "init"
    /\ calc' = [calc EXCEPT !.pc = "loop",
                            !.control_matrix = OrchestratorFrases(calc.full_text)]
    /\ CalcFrame

\* One turn of the sentence loop: generate_single_phrase_with_prosody(frase,
\* idx, ...) takes the hints of phrase_idx and sends hints['text'] on.
GenerateSinglePhraseWithProsody ==
    /\ calc.op = "table" /\ calc.pc = "loop"
    /\ calc.idx < Len(calc.sentences)
    /\ calc' = [calc EXCEPT
                  !.idx = @ + 1,
                  !.applied = Append(@, ObtenerParametrosMaestros(
                                            calc.control_matrix, calc.idx,
                                            calc.sentences[calc.idx + 1]))]
    /\ CalcFrame

TableNext == JoinSentences \/ InicializarOrquestadorMaestro \/ GenerateSinglePhraseWithProsody

TableSpec == InitCalc(TableInputs) /\ [][TableNext]_vars

\* ------------------------------------------------------------------ claims
\* C1: every call of the retry loop returns after at most
\* fallback_after_attempts engine invocations, whatever the outcomes (valid,
\* invalid, empty, generic exception): no engine call of the loop is ever
\* issued with the attempt counter above the ceiling.
C1_RetryLoopWithinCeiling ==
    \A t \in Threads : w[t].pc = "infer" => w[t].attempt <= fallback_after_attempts

\* C2: when the retry loop returns by fallback, the waveform returned is the
\* invalid candidate with the lowest quality score among all the candidates
\* scored for that sentence.
C2_FallbackReturnsLowestScore ==
    \A t \in Threads :
        (w[t].pc = "gspv_ret" /\ w[t].ret.kind = "fallback") =>
            /\ w[t].ret.score \in w[t].scored
            /\ \A s \in w[t].scored : w[t].ret.score <= s

C2_Witness ==
    \E t \in Threads :
        /\ w[t].pc = "gspv_ret" /\ w[t].ret.kind = "fallback"
        /\ Cardinality(w[t].scored) > 1
        /\ w[t].ret.score = Min(w[t].scored)

\* C3 (as claimed): the retry loop writes its checkpoint only after both the
\* extended-text re-synthesis (a) and the split synthesis (b) have been
\* attempted and have failed.
C3_CheckpointAfterBothRecoveries ==
    \A t \in Threads :
        w[t].pc = "gspv_exc" => (w[t].tried_ext /\ w[t].tried_split)

\* C3 (amended): recovery (b) is only ever started after recovery (a) has
\* been attempted, and the retry loop writes its checkpoint only after (a)
\* has failed and (b) has either been attempted and failed or could not be
\* started because the text does not split in two.
C3_CheckpointAfterRecoveriesUnlessUnsplittable ==
    \A t \in Threads :
        /\ w[t].pc = "split" => w[t].tried_ext
        /\ w[t].pc = "gspv_exc" =>
              /\ w[t].tried_ext
              /\ w[t].tried_split \/ Len(SplitTextForEngineShort(w[t].text)) = 1

C3_Witness ==
    \E t \in Threads :
        /\ w[t].pc = "gspv_exc" /\ w[t].tried_ext /\ w[t].tried_split
        /\ resume_file = Checkpoint(w[t])

\* C4: once a checkpoint has been persisted the whole run terminates: the
\* process that wrote it issues no further engine invocation.
C4_NoEngineAfterCheckpoint ==
    \A t \in Threads : w[t].checkpointed => ~InEngine(t)

C7_OverridesRestored ==
    \A t \in Threads :
        (w[t].pc \in {"loop", "phase2", "regen", "run_end"}
            /\ w[t].params_before # NoParams) =>
                w[t].params = w[t].params_before

C7_Witness ==
    \E t \in Threads :
        /\ w[t].pc = "run_end" /\ w[t].fatal
        /\ document[1].hints.apply_modifications
        /\ w[t].params_before = DefaultParams
        /\ w[t].params = DefaultParams

C9_NoEngineAfterStopBoundary ==
    \A t \in Threads :
        (w[t].stopped /\ w[t].stop_idx >= -1 /\ InEngine(t)) =>
            (w[t].pc # "regen" /\ w[t].idx = w[t].stop_idx)

\* The run has assembled a final waveform with a segment for every sentence.
Completed(t) ==
    /\ w[t].pc = "run_end" /\ ~w[t].fatal
    /\ Len(w[t].final) = total
    /\ \A i \in 1..total : w[t].final[i].sent = i - 1

\* The run has ended with the fatal-error message and a persisted checkpoint.
FatalEnd(t) ==
    /\ w[t].pc = "run_end" /\ w[t].fatal /\ w[t].fatal_logged
    /\ w[t].final = << >>
    /\ resume_file = Checkpoint(w[t])

\* C10: every run that the user does not stop ends in exactly one of two
\* outcomes: the final waveform with a segment for every sentence, or the
\* fatal-error message with a persisted checkpoint.
C10_RunEndsCompleteOrFatal ==
    \A t \in Threads :
        (w[t].pc = "run_generation") ~> (Completed(t) \/ FatalEnd(t))

NumAbove(r) ==
    Cardinality({ i \in 1..Len(r.fix_in.problems) :
                    r.fix_in.problems[i] > r.fix_in.threshold })

FixLimit(r) ==
    IF NumAbove(r) < r.fix_in.max_fixes THEN NumAbove(r) ELSE r.fix_in.max_fixes

BestWith(r, sc) == IF sc > r.best_score THEN sc ELSE r.best_score

\* C13: when the attempts for a problem end, the segment is replaced by the
\* best candidate only if the best fix-score is strictly above 0.5, and the
\* fix is then counted as successful; otherwise every segment stays the
\* original one and the fix is counted as failed.
C13_ReplacedOnlyAboveHalf ==
    [][ \A t \in Threads :
          w[t].pc = "regen" =>
            /\ w'[t].audio_segments # w[t].audio_segments =>
                   w'[t].fix_report.successful = w[t].fix_report.successful + 1
            /\ \A e \in RegenEngineOutcomes, seg \in 1..Len(w[t].audio_segments) :
                 w'[t] = AfterAttempt(w[t], GenerateWithParams(e), seg) =>
                   /\ w'[t].fix_report.successful = w[t].fix_report.successful + 1 =>
                        /\ BestWith(w[t], e.score) > 5
                        /\ w'[t].fix_report.failed = w[t].fix_report.failed
                        /\ w'[t].audio_segments =
                             [w[t].audio_segments EXCEPT ![seg].src = "phase2"]
                   /\ w'[t].fix_report.failed = w[t].fix_report.failed + 1 =>
                        /\ BestWith(w[t], e.score) <= 5
                        /\ w'[t].fix_report.successful = w[t].fix_report.successful
                        /\ w'[t].audio_segments = w[t].audio_segments ]_vars

\* The only fix attempted has ended as failed and the segments returned are
\* the originals.
C13_Witness ==
    \E t \in Threads :
        /\ w[t].pc = "run_end"
        /\ w[t].fix_report = [attempted |-> 1, successful |-> 0, failed |-> 1]
        /\ w[t].final = AfterPhase1.audio_segments
        /\ w[t].fix_in.max_fixes = 1

\* C14: the waveform of an accepted segment is never modified in place: from
\* the Phase 1 assembly to the final assembly every segment of the list holds
\* the samples it was accepted with, or those of the candidate that took its
\* place as a whole.
C14_SegmentsNeverModifiedInPlace ==
    calc.op = "concat" => calc.segments = calc.accepted

\* C15: every problem returned by identify_problems has a severity within
\* [0, 1] (0..1000 on the scale of the model).
C15_SeverityWithinUnitInterval ==
    calc.op = "detect" =>
        \A i \in 1..Len(calc.problems) :
            calc.problems[i].severity >= 0 /\ calc.problems[i].severity <= 1000

\* The sentences of a list are non-empty and end in a terminal mark.
WellEnded(sentences) ==
    \A i \in 1..Len(sentences) :
        sentences[i] # << >> /\ sentences[i][Len(sentences[i])] \in Terminals

\* C16: every sentence produced by segmentation, by the orchestrator, by
\* split_into_sentences and by the complex generator alike, is non-empty and
\* ends in '.', '!' or '?'.
C16_SentencesNonEmptyAndTerminated ==
    calc.op = "segment" =>
        WellEnded(calc.frases) /\ WellEnded(calc.sentences) /\ WellEnded(calc.cx_frases)

VienesClaro == << "¿", "Vienes", "?", " ", "Sí", ",", " ", "claro", "." >>

VienesYClaro == << << "¿", "Vienes", "?" >>, << "Sí", ",", " ", "claro", "." >> >>

\* C17: the complete segmentation of "¿Vienes? Sí, claro.", short-fragment
\* merge included, is the two sentences "¿Vienes?" and "Sí, claro." in that
\* order, in each of the three segmenters.
C17_VienesClaroIsTwoSentences ==
    (calc.op = "segment" /\ calc.text = VienesClaro) =>
        /\ "orchestrator" \in calc.done => calc.frases = VienesYClaro
        /\ "app" \in calc.done => calc.sentences = VienesYClaro
        /\ "complex" \in calc.done => calc.cx_frases = VienesYClaro

\* The sentences of the output that are not sentences of the input.
MergedOnes(input, output) ==
    { output[i] : i \in { j \in 1..Len(output) : output[j] \notin Tokens(input) } }

\* C18: no sentence that a short-sentence merge pass has put together is
\* longer than the cap of 160 characters, whatever the list of sentences.
C18_MergedWithinCap ==
    calc.op = "merge" =>
        \A s \in MergedOnes(calc.input, calc.merged_app)
                 \cup MergedOnes(calc.input, calc.merged_complex) :
            CharLen(s) <= max_merged_chars

\* The contrast connectives that stand as words of their own in a paragraph.
Connectives(parrafo) ==
    UNION { { << palabra, i >> :
                 i \in { j \in 1..Len(parrafo) :
                            \A k \in 1..Len(palabra) :
                                At(Lower(parrafo), j + k - 1) = palabra[k] } } :
            palabra \in indicadores_peso.giros }

\* A document of three paragraphs whose one contrast connective is the
\* "sin embargo" of the second, with its centre selected.
OnlySinEmbargoInSecond ==
    /\ calc.op = "plan" /\ calc.done /\ Len(calc.parrafos) = 3
    /\ Connectives(calc.parrafos[1]) = {}
    /\ Connectives(calc.parrafos[3]) = {}
    /\ Cardinality(Connectives(calc.parrafos[2])) = 1
    /\ \E i \in 1..Len(calc.parrafos[2]) :
           << << "sin", " ", "embargo" >>, i >> \in Connectives(calc.parrafos[2])

\* The first and third paragraphs hold no word of indicadores_peso, not even
\* inside a longer word, and neither is 300 characters or more longer than
\* the second.
OthersPlainAndNotFarLonger ==
    \A k \in {1, 3} :
        /\ Indicadores(Lower(calc.parrafos[k])) = 0
        /\ CharLen(calc.parrafos[k]) < CharLen(calc.parrafos[2]) + 300

\* C19 as stated: for every document of three paragraphs whose second
\* paragraph holds the only contrast connective ("sin embargo"), the dramatic
\* centre selected is paragraph index 1.
C19_SinEmbargoParagraphIsCentre ==
    OnlySinEmbargoInSecond => calc.centro = 1

\* C19 amended: for every document of three paragraphs whose second
\* paragraph holds the only contrast connective ("sin embargo"), whose other
\* paragraphs hold no word of the five lexical categories and are less than
\* 300 characters longer than the second, the dramatic centre selected is
\* paragraph index 1.
C19_SinEmbargoParagraphIsCentreAmongPlain ==
    (OnlySinEmbargoInSecond /\ OthersPlainAndNotFarLonger) => calc.centro = 1

\* The second paragraph has been selected although the third, without any
\* indicator, is the longer one.
C19_Witness ==
    /\ OnlySinEmbargoInSecond /\ OthersPlainAndNotFarLonger
    /\ CharLen(calc.parrafos[3]) > CharLen(calc.parrafos[2])
    /\ calc.centro = 1

\* The values rise, or stay, up to the paragraph of index centro and fall, or
\* stay, from it on.
RisesThenFalls(values, centro) ==
    \A k \in 1..(Len(values) - 1) :
        /\ k <= centro => values[k] <= values[k + 1]
        /\ k >= centro + 1 => values[k] >= values[k + 1]

\* C20: for every number of paragraphs and every centre, the tone
\* multipliers of the paragraphs, those of the arc and those the plan assigns
\* as base tones, are non-decreasing up to the centre and non-increasing from
\* the centre on.
C20_ToneRisesToCentreThenFalls ==
    (calc.op = "plan" /\ calc.done) =>
        /\ RisesThenFalls(calc.arco, calc.centro)
        /\ RisesThenFalls(calc.tonos, calc.centro)

\* ---------------------------------------------------------------- C21
\* The rows of a finished plan.
Rows == IF calc.op = "plan" /\ calc.done THEN calc.control_matrix ELSE << >>

\* C21: in a finished plan the pause after every sentence lies between 0.2
\* and 3.0 seconds, whatever its terminal mark, its position in the
\* paragraph and the document, and the transition to the next sentence.
C21_PauseWithinLimits ==
    \A i \in 1..Len(Rows) :
        Rows[i].pausa_final >= pausa_min /\ Rows[i].pausa_final <= pausa_max

\* A plan with the doubled pause of the last sentence of the document, the
\* lengthened pause before a contrast and the shortened one before a
\* continuation.
C21_Witness ==
    /\ \E i \in 1..Len(Rows) : Rows[i].pausa_final = 1600
    /\ \E i \in 1..Len(Rows) : Rows[i].pausa_final = 1040
    /\ \E i \in 1..Len(Rows) : Rows[i].pausa_final = 640
    /\ \E i \in 1..Len(Rows) : Rows[i].pausa_final = 500

\* ---------------------------------------------------------------- C27
\* The tone lies between 0.75 and 1.35 times the base frequency.
TonoWithinLimits(tono) == tono >= TonoMin /\ tono <= TonoMax

\* C27: in a finished plan every tone, the base tone of a sentence and its
\* initial and final tone when it has one, lies between 0.75 and 1.35 times
\* the base frequency, and every speed between 0.75 and 1.25 times the
\* natural speed.
C27_TonesAndSpeedsWithinLimits ==
    \A i \in 1..Len(Rows) :
        /\ TonoWithinLimits(Rows[i].tono_base)
        /\ Rows[i].tono_inicial # None => TonoWithinLimits(Rows[i].tono_inicial)
        /\ Rows[i].tono_final # None => TonoWithinLimits(Rows[i].tono_final)
        /\ Rows[i].velocidad >= VelMin /\ Rows[i].velocidad <= VelMax

\* The part of C27 on base tones and speeds, which the final verification
\* of the plan enforces.
C27_BaseTonesAndSpeedsWithinLimits ==
    \A i \in 1..Len(Rows) :
        /\ TonoWithinLimits(Rows[i].tono_base)
        /\ Rows[i].velocidad >= VelMin /\ Rows[i].velocidad <= VelMax

\* ---------------------------------------------------------------- C28
\* The number of sentences of paragraph parrafo_id among the rows.
TotalFrases(rows, parrafo_id) ==
    Cardinality({ i \in 1..Len(rows) : rows[i].parrafo_id = parrafo_id })

\* C28: in a finished plan the curve of every sentence, questions and
\* exclamations included, is the one of ataque, meseta_modulada and
\* cadencia that its relative position in its paragraph selects.
C28_CurveByPosition ==
    \A i \in 1..Len(Rows) :
        /\ Rows[i].curva \in { "ataque", "meseta_modulada", "cadencia" }
        /\ Rows[i].curva = CurvaDePosicion(Rows[i].frase_id,
                                           TotalFrases(Rows, Rows[i].parrafo_id))

\* ---------------------------------------------------------------- C22
\* The validated clip and its text once validation has returned.
Validated == calc.op = "validate" /\ calc.done

\* Whether criterion k of validation, in the order 1 non-empty, 2 duration,
\* 3 energy, 4 endpoints, 5 final consonant, 6 silence, 7 pitch stability,
\* 8 sinalefas, fails on the validated clip.
Fails(k) ==
    LET audio == calc.audio
        features == DetectSpanishFeatures(calc.text)
        chars == CharLen(calc.text)
    IN  CASE k = 1 -> audio.samples = 0
          [] k = 2 -> \/ TooShort(audio.samples, chars, IF features.complex THEN 9 ELSE 10)
                      \/ TooLong(audio.samples, chars, IF features.complex THEN 12 ELSE 10)
          [] k = 3 -> audio.rms < min_energy_threshold
          [] k = 4 -> /\ audio.samples > 2 * ((5 * sample_rate) \div 100)
                      /\ audio.inicio_energy > 400 \/ audio.final_energy > 400
          [] k = 5 -> /\ HasProblematicFinals(calc.text)
                      /\ "final_yin" \notin audio.raises /\ audio.final_f0_valid < 3
          [] k = 6 -> audio.silent_frames * 100 > max_silence_ratio * ClipFrames
          [] k = 7 -> /\ "yin" \notin audio.raises /\ audio.f0_valid > 10
                      /\ audio.extreme_jumps * 100 > pitch_stability_threshold * audio.f0_valid
          [] k = 8 -> /\ features.sinalefas > 0 /\ "stft" \notin audio.raises
                      /\ audio.extreme_drops * 10 > ClipFrames

\* The reasons with which criterion k rejects.
ReasonsOf(k) ==
    CASE k = 1 -> { "Audio vacío" }
      [] k = 2 -> { "Duración insuficiente", "Duración excesiva" }
      [] k = 3 -> { "Energía insuficiente" }
      [] k = 4 -> { "Posible audio cortado en extremos" }
      [] k = 5 -> { "Posible consonante final cortada" }
      [] k = 6 -> { "Exceso de silencio interno" }
      [] k = 7 -> { "Pitch inestable" }
      [] k = 8 -> { "Posibles sinalefas cortadas" }

\* C22: validation rejects a clip exactly when one of its criteria fails,
\* with the reason of the first criterion that fails in the order non-empty,
\* duration, energy, endpoints, final consonant, silence, pitch, sinalefas;
\* a non-empty clip shorter than the minimum expected duration is rejected
\* for insufficient duration whatever its energy, endpoints, pitch and
\* silence, and so is the declarative of 9 words and 48 characters
\* synthesized as a clip of 0.05 s.
C22_RejectsWithFirstFailingCriterion ==
    Validated =>
        /\ calc.is_valid <=> \A k \in 1..8 : ~Fails(k)
        /\ \A k \in 1..8 :
               (Fails(k) /\ \A j \in 1..(k - 1) : ~Fails(j)) => calc.reason \in ReasonsOf(k)
        /\ ( /\ calc.audio.samples > 0
             /\ TooShort(calc.audio.samples, CharLen(calc.text),
                         IF DetectSpanishFeatures(calc.text).complex THEN 9 ELSE 10) )
           => (~calc.is_valid /\ calc.reason = "Duración insuficiente")
        /\ ( /\ calc.text = Declarativa48
             /\ CharLen(calc.text) = 48 /\ NumWords(calc.text) = 9
             /\ calc.audio.samples * 100 = 5 * sample_rate )
           => (~calc.is_valid /\ calc.reason = "Duración insuficiente")

\* The declarative of 48 characters as a clip of 0.05 s that also lacks
\* energy, has a loud end, too much silence and spectral drops, rejected for
\* its duration.
C22_Witness ==
    /\ Validated
    /\ calc.text = Declarativa48 /\ CharLen(calc.text) = 48 /\ NumWords(calc.text) = 9
    /\ calc.audio.samples = 1200
    /\ Fails(2) /\ Fails(3) /\ Fails(6) /\ Fails(8)
    /\ ~calc.is_valid /\ calc.reason = "Duración insuficiente"

\* ---------------------------------------------------------------- C23
\* The analysis of a document whose last sentence is "Para siempre." has
\* an end pitch equal to its start pitch.
ParaSiempreFlat ==
    /\ calc.op = "detect" /\ calc.pc = "done"
    /\ LET seg == calc.analysis_map[Len(calc.analysis_map)]
       IN  /\ seg.ending = "." /\ seg.palabra = "siempre"
           /\ seg.pitched /\ seg.pitch_end = seg.pitch_start

\* C23: a document whose last sentence is "Para siempre." and whose analysed
\* end pitch equals its start pitch is flagged with a problem of type
\* missing_definitive_ending of severity above 0.
C23_ParaSiempreFlatIsFlagged ==
    ParaSiempreFlat =>
        \E i \in 1..Len(calc.problems) :
            /\ calc.problems[i].type = "missing_definitive_ending"
            /\ calc.problems[i].severity > 0

\* The part of C23 that holds: the sentence is flagged when its audio has at
\* least two analysis windows, the last of which lies in the release zone.
C23_FlaggedWithReleaseWindow ==
    (ParaSiempreFlat /\ calc.analysis_map[Len(calc.analysis_map)].release) =>
        \E i \in 1..Len(calc.problems) :
            /\ calc.problems[i].type = "missing_definitive_ending"
            /\ calc.problems[i].severity > 0

\* ---------------------------------------------------------------- C24
\* The retry loop is about to call the engine again after an outcome of the
\* given kinds.
Retrying(kinds) ==
    calc.op = "retry" /\ calc.r.pc = "infer" /\ calc.outcome \in kinds

\* C24: between two consecutive engine calls of the retry loop of one
\* sentence the loop sleeps the fixed 0.5 s, whether the retry follows an
\* invalid clip, an empty waveform or a generic engine error.
C24_DelayBetweenEngineCalls ==
    Retrying({"invalid", "empty", "error"}) => calc.slept = retry_delay_ms

\* The part of C24 that holds: the delay after an invalid clip and after a
\* generic engine error.
C24_DelayAfterInvalidOrError ==
    Retrying({"invalid", "error"}) => calc.slept = retry_delay_ms

\* ---------------------------------------------------------------- C25
\* Worker t goes on with the problem it is fixing.
SameProblem(t) == w'[t].pc = "regen" /\ w'[t].problems = w[t].problems

\* Worker t leaves the problem it is fixing for the next one, or for the
\* assembly when it was the last; the run is not left.
ProblemLeft(t) ==
    \/ /\ w'[t].pc = "regen" /\ w'[t].problems = w[t].problems - 1
       /\ w'[t].fix_attempt = 0 /\ w'[t].consecutive_failures = 0
    \/ w'[t].pc = "run_end" /\ w[t].problems = 1 /\ ~w'[t].regen_exit

WithinClamp(params) ==
    /\ params.nfe_step >= nfe_step_min /\ params.nfe_step <= nfe_step_max
    /\ params.sway_sampling_coef >= sway_min /\ params.sway_sampling_coef <= sway_max
    /\ params.cfg_strength >= cfg_min /\ params.cfg_strength <= cfg_max
    /\ params.speed >= speed_min /\ params.speed <= speed_max

\* From one attempt to the next the step count and the guidance strength do
\* not decrease and the sway does not become less negative.
StepsSwayAndGuidanceEscalate(before, after) ==
    /\ after.nfe_step >= before.nfe_step
    /\ after.sway_sampling_coef <= before.sway_sampling_coef
    /\ after.cfg_strength >= before.cfg_strength

\* The parameters of the attempts of the problem made so far.
ParamsSoFar == IF calc.op = "adjust" THEN calc.generation_params ELSE << >>

\* C26: for every problem type the parameters of the attempts 0..4 lie
\* within the clamp bounds and, from one attempt to the next, the step count
\* never decreases, the sway never becomes less negative, the guidance
\* strength never decreases and the speed never increases.
C26_ParamsEscalate ==
    /\ \A i \in 1..Len(ParamsSoFar) : WithinClamp(ParamsSoFar[i])
    /\ \A i \in 1..(Len(ParamsSoFar) - 1) :
           /\ StepsSwayAndGuidanceEscalate(ParamsSoFar[i], ParamsSoFar[i + 1])
           /\ ParamsSoFar[i + 1].speed <= ParamsSoFar[i].speed

\* The types of problem whose regeneration is sped up attempt after attempt.
SpedUpTypes == { "missing_question_rise", "missing_micro_ascenso" }

\* C26, amended: for every problem type the parameters of the attempts 0..4
\* lie within the clamp bounds and, from one attempt to the next, the step
\* count never decreases, the sway never becomes less negative and the
\* guidance strength never decreases; the speed never increases, except for
\* a missing question rise and a missing micro-ascent, for which it
\* increases with every attempt.
C26_ParamsEscalateButSpeedOfRises ==
    /\ \A i \in 1..Len(ParamsSoFar) : WithinClamp(ParamsSoFar[i])
    /\ \A i \in 1..(Len(ParamsSoFar) - 1) :
           /\ StepsSwayAndGuidanceEscalate(ParamsSoFar[i], ParamsSoFar[i + 1])
           /\ IF calc.type \in SpedUpTypes
              THEN ParamsSoFar[i + 1].speed > ParamsSoFar[i].speed
              ELSE ParamsSoFar[i + 1].speed <= ParamsSoFar[i].speed

\* The five attempts for a missing question rise: the sway has gone from
\* -0.30 to the limit of -0.40 and the speed from 1.05 to 1.13.
C26_Witness ==
    /\ calc.op = "adjust" /\ calc.type = "missing_question_rise"
    /\ Len(calc.generation_params) = regen_max_attempts
    /\ calc.generation_params[1].sway_sampling_coef = -30
    /\ calc.generation_params[5].sway_sampling_coef = sway_min
    /\ calc.generation_params[1].speed = 105
    /\ calc.generation_params[5].speed = 113

\* The accepted segments of worker t are those of the sentences 0, 1, 2, ...
Aligned(t) ==
    \A i \in 1..Len(w[t].audio_segments) : w[t].audio_segments[i].sent = i - 1

\* C30: when the analysis and the regeneration of Phase 2 start, segment i of
\* the accepted-segment list is the waveform of sentence i, also in a run
\* resumed from a checkpoint whose earlier segments are read back from disk.
C30_SegmentsAlignedWithSentences ==
    \A t \in Threads : w[t].pc \in {"phase2", "regen"} => Aligned(t)

C30_Witness ==
    \E t \in Threads :
        /\ w[t].pc = "regen"
        /\ w[t].resumed_from = 1
        /\ Len(w[t].audio_segments) = total
        /\ w[t].audio_segments[1].src = "disk"
        /\ Aligned(t)

\* C29: the parameter table has exactly one row per synthesized sentence, in
\* the same order: the row applied to sentence i, and the text sent to the
\* engine for it, are those planned for that same sentence i.
C29_RowOfSentenceApplied ==
    (calc.op = "table" /\ calc.pc = "loop") =>
        /\ Len(calc.control_matrix) = Len(calc.sentences)
        /\ \A i \in 1..Len(calc.applied) :
              /\ calc.applied[i].maestro_source
              /\ calc.applied[i].row = i - 1
              /\ calc.applied[i].text = calc.sentences[i]

\* A row is never applied to a sentence of another index.
C29_RowIndexIsSentenceIndex ==
    (calc.op = "table" /\ calc.pc = "loop") =>
        \A i \in 1..Len(calc.applied) :
            calc.applied[i].maestro_source => calc.applied[i].row = i - 1

====
